---- MODULE Spec2Model ----
(***************************************************************************)
(* The asynchronous task scheduler of                                      *)
(* ai-agency-platform/automation/scheduler/task_scheduler.py.              *)
(*                                                                         *)
(* The scheduler runs on one asyncio event loop, so the code between two   *)
(* suspension points (await) is one atomic step.  Each action below is one *)
(* such step of the public API (schedule_task, cancel_task, start,         *)
(* shutdown), of the dispatcher coroutine (_worker) or of one supervisor   *)
(* coroutine (_execute_task).  Task objects live in a heap (objs) because  *)
(* schedule_task replaces tasks[task_id] by a new object while a running   *)
(* _execute_task keeps its reference to the old one.                       *)
(***************************************************************************)
EXTENDS Integers, Sequences, FiniteSets, TLC

(* ---------------------------- bounds ----------------------------------- *)
NumIds == 2
MaxObjs == 2
MaxSup == 2
MaxWorkers == 2
MaxTime == 1
MaxEntries == 2
MaxRestarts == 1
MaxReschedules == 1
MaxRetries == 1
MaxPriority == 2
MaxSchedule == 1
MaxConcurrent == 2

Ids == 1..NumIds
Slots == 1..MaxObjs
Handles == 1..MaxSup
WorkerIds == 1..MaxWorkers

TaskTypes == {"job"}

(* The calls of shutdown() that can be in progress at the same time.       *)
ShutdownCalls == {1, 2}

(* What a handler returns: a value that JSON represents as it is, or one   *)
(* that JSON represents by another value (a tuple is written as a list).   *)
Results == {"value", "tuple"}

(* The params of a task: a dictionary of JSON values, or one that holds a *)
(* tuple.                                                                 *)
Params == {"dict", "dict_tuple"}

(* retry_delay and timeout, in seconds. *)
RetryDelays == {1}
Timeouts == {1}

NoTime == -1
NoObj == [status |-> "free"]
NoSup == [pc |-> "free"]
Done == -1

(* ---------------------------- state ------------------------------------ *)
VARIABLES
    now,            \* datetime.now(), in seconds
    handlers,       \* self.handlers: the registered task types
    objs,           \* heap of Task objects
    tasks,          \* self.tasks: task_id -> object (0: absent)
    task_queue,     \* self.task_queue: entries in heap order
    running_tasks,  \* self.running_tasks: task_id -> runner (0: absent, Done: a finished runner)
    sups,           \* the _execute_task coroutines in flight
    workers,        \* the _worker coroutines
    worker_task,    \* self.worker_task (0: attribute not set)
    is_running,     \* self.is_running
    max_concurrent_tasks,
    sd,             \* the shutdown() coroutines: position, tasks awaited (worker, runners), ids marked at line 353
    disk,           \* contents of storage_path
    storage,        \* environment: what open() and write() on storage_path do
    restarts,       \* number of process restarts so far
    invocations,    \* history: handler invocations per Task object
    reschedules,    \* number of schedule_task calls whose task_id was already in self.tasks
    flushed,        \* history: shutdown has returned and no operation has been called since
    revoked,        \* history: the Task objects that were "scheduled" when cancel_task returned True
    stopped,        \* history: the Task objects that were "running" when cancel_task returned True
    last            \* history: the step taken last

vars == <<now, handlers, objs, tasks, task_queue, running_tasks, sups, workers,
          worker_task, is_running, max_concurrent_tasks, sd, disk, storage, restarts,
          invocations, reschedules, revoked, stopped, flushed, last>>

(* ---------------------------- Task ------------------------------------- *)
Task(task_id, task_type, params, schedule_time, priority, max_retries, retry_delay, timeout, callback_url) ==
    [status |-> "scheduled",
     task_id |-> task_id, task_type |-> task_type, params |-> params, schedule_time |-> schedule_time,
     priority |-> priority, max_retries |-> max_retries, retry_delay |-> retry_delay,
     timeout |-> timeout, callback_url |-> callback_url,
     retry_count |-> 0,
     start_time |-> NoTime, end_time |-> NoTime,
     result |-> "none", error |-> "none"]

(* datetime.isoformat() / datetime.fromisoformat(): the JSON document holds *)
(* a string for a datetime and null for None.                              *)
isoformat(t) == <<"iso", t>>
fromisoformat(s) == s[2]
JsonNull == <<>>

to_dict(t) ==
    [status |-> t.status,
     task_id |-> t.task_id, task_type |-> t.task_type, params |-> t.params,
     schedule_time |-> isoformat(t.schedule_time),
     priority |-> t.priority, max_retries |-> t.max_retries,
     retry_delay |-> t.retry_delay, timeout |-> t.timeout,
     callback_url |-> t.callback_url,
     retry_count |-> t.retry_count,
     start_time |-> IF t.start_time # NoTime THEN isoformat(t.start_time) ELSE JsonNull,
     end_time |-> IF t.end_time # NoTime THEN isoformat(t.end_time) ELSE JsonNull,
     result |-> t.result, error |-> t.error]

from_dict(d) ==
    [Task(d.task_id, d.task_type, d.params, fromisoformat(d.schedule_time), d.priority,
          d.max_retries, d.retry_delay, d.timeout, d.callback_url)
       EXCEPT !.status = d.status,
              !.retry_count = d.retry_count,
              !.start_time = IF d.start_time # JsonNull THEN fromisoformat(d.start_time) ELSE NoTime,
              !.end_time = IF d.end_time # JsonNull THEN fromisoformat(d.end_time) ELSE NoTime,
              !.result = d.result,
              !.error = d.error]

(* ---------------------------- queue ------------------------------------ *)
(* The queue item is ((priority, schedule_time.timestamp(), task_id),      *)
(* task_id); tuples compare lexicographically.                             *)
priority_item(t) == <<t.priority, t.schedule_time, t.task_id>>

ItemLess(a, b) ==
    \/ a[1] < b[1]
    \/ a[1] = b[1] /\ a[2] < b[2]
    \/ a[1] = b[1] /\ a[2] = b[2] /\ a[3] < b[3]

RECURSIVE QueuePut(_, _)
QueuePut(q, item) ==
    IF q = <<>> THEN <<item>>
    ELSE IF ItemLess(item, Head(q)) THEN <<item>> \o q
    ELSE <<Head(q)>> \o QueuePut(Tail(q), item)

(* ---------------------------- storage ---------------------------------- *)
NoFile == [exists |-> FALSE]

(* json.dump followed by json.load, on the dictionary of one task.         *)
json(d) == [d EXCEPT !.result = IF @ = "tuple" THEN "list" ELSE @,
                     !.params = IF @ = "dict_tuple" THEN "dict_list" ELSE @]

(* lines 293-294: the document that a save writes.                         *)
Snapshot(os, ts) ==
    [exists |-> TRUE,
     data |-> [i \in {j \in Ids : ts[j] # 0} |-> json(to_dict(os[ts[i]]))]]

(* What the environment does to storage_path: "ok", open() raises          *)
(* ("denied"), or open(path, 'w') truncates the file and the write raises  *)
(* ("full").                                                               *)
StorageStates == {"ok", "denied", "full"}

(* A file that open(path, 'w') truncated and that holds no JSON document.  *)
Truncated == [exists |-> TRUE, data |-> <<>>, torn |-> TRUE]

(* lines 289-296: the file after save_tasks(); an exception is logged and  *)
(* swallowed.                                                              *)
save_tasks(os, ts) ==
    CASE storage = "ok" -> Snapshot(os, ts)
      [] storage = "denied" -> disk
      [] storage = "full" -> Truncated

(* lines 300-303: the file exists, opens and parses.                       *)
Loads(d) == d.exists /\ d # Truncated /\ storage # "denied"

(* load_tasks(): every record becomes a fresh Task object; only the tasks   *)
(* whose status is "scheduled" are put in the queue.                       *)
LoadedIds(d) == IF Loads(d) THEN DOMAIN d.data ELSE {}

SlotOf(d, i) == Cardinality({j \in LoadedIds(d) : j <= i})

load_objs(d) ==
    [o \in Slots |->
        IF \E i \in LoadedIds(d) : SlotOf(d, i) = o
        THEN from_dict(d.data[CHOOSE i \in LoadedIds(d) : SlotOf(d, i) = o])
        ELSE NoObj]

load_tasks(d) == [i \in Ids |-> IF i \in LoadedIds(d) THEN SlotOf(d, i) ELSE 0]

Requeued_running(t) == t.status \in {"scheduled", "running"}

(* line 309 *)
Requeued(t) == t.status = "scheduled"

RECURSIVE load_queue(_, _)
load_queue(d, todo) ==
    IF todo = {} THEN <<>>
    ELSE LET i == CHOOSE j \in todo : \A k \in todo : j <= k
             t == from_dict(d.data[i])
             rest == load_queue(d, todo \ {i})
         IN IF Requeued(t) THEN QueuePut(rest, priority_item(t)) ELSE rest

(* ---------------------------- helpers ---------------------------------- *)
Referenced(o, ts, ss) ==
    \/ \E i \in Ids : ts[i] = o
    \/ \E h \in Handles : ss[h].pc # "free" /\ ss[h].obj = o

(* A Task object that neither self.tasks nor a coroutine refers to is      *)
(* garbage.                                                                *)
Collect(os, ts, ss) == [o \in Slots |-> IF Referenced(o, ts, ss) THEN os[o] ELSE NoObj]

FreeSlot(os) == CHOOSE o \in Slots : os[o] = NoObj /\ \A p \in Slots : os[p] = NoObj => o <= p

FreeHandle == CHOOSE h \in Handles : sups[h] = NoSup /\ \A g \in Handles : sups[g] = NoSup => h <= g

(* The invocation count follows the object: a collected object has none.   *)
Invoked(os, n) == [o \in Slots |-> IF os[o] = NoObj THEN 0 ELSE n[o]]

Revoked(os, r) == {o \in r : os[o] # NoObj}

Step(op, id, h, ret) == [h |-> h, op |-> op, id |-> id, ret |-> ret]

(* The number of queue entries that name a task id.                        *)
Entries(i) == Cardinality({k \in 1..Len(task_queue) : task_queue[k][3] = i})

RunningIds == {i \in Ids : running_tasks[i] # 0}

(* A shutdown() that is not in progress.                                   *)
Idle == [pc |-> "idle", wait |-> {}, marked |-> {}]

(* The runner h has ended: no asyncio.gather waits for it any more.        *)
Gathered(h) ==
    [c \in ShutdownCalls |->
        IF sd[c].pc = "gather" THEN [sd[c] EXCEPT !.wait = @ \ {h}] ELSE sd[c]]

(* ---------------------------- Init ------------------------------------- *)
(* TaskScheduler.__init__ with no storage file yet.                        *)
Init ==
    /\ now = 0
    /\ handlers = {}
    /\ objs = [o \in Slots |-> NoObj]
    /\ tasks = [i \in Ids |-> 0]
    /\ task_queue = <<>>
    /\ running_tasks = [i \in Ids |-> 0]
    /\ sups = [h \in Handles |-> NoSup]
    /\ workers = [w \in WorkerIds |-> [pc |-> "none", cancel |-> FALSE]]
    /\ worker_task = 0
    /\ is_running = FALSE
    /\ max_concurrent_tasks \in 1..MaxConcurrent
    /\ sd = [c \in ShutdownCalls |-> Idle]
    /\ disk = NoFile
    /\ storage = "ok"
    /\ restarts = 0
    /\ invocations = [o \in Slots |-> 0]
    /\ reschedules = 0
    /\ revoked = {}
    /\ stopped = {}
    /\ flushed = FALSE
    /\ last = Step("init", 0, 0, "none")

(* ---------------------------- API -------------------------------------- *)
register_handler(task_type) ==
    /\ task_type \notin handlers
    /\ handlers' = handlers \cup {task_type}
    /\ last' = Step("register_handler", 0, 0, "none")
    /\ flushed' = FALSE
    /\ UNCHANGED <<now, objs, invocations, revoked, stopped, tasks, task_queue, running_tasks, sups, workers, worker_task,
                   is_running, max_concurrent_tasks, sd, disk, restarts, storage, reschedules>>

(* A schedule_task that takes the task out again when the save fails.      *)
schedule_task_checked(task) ==
  IF storage # "ok"
  THEN /\ last' = Step("schedule_task", task.task_id, 0, "error")
       /\ flushed' = FALSE
       /\ UNCHANGED <<now, handlers, objs, invocations, revoked, stopped, tasks, task_queue, running_tasks, sups,
                      workers, worker_task, is_running, max_concurrent_tasks, sd, disk, restarts,
                      storage, reschedules>>
  ELSE
    /\ Entries(task.task_id) < MaxEntries
    /\ tasks[task.task_id] # 0 => reschedules < MaxReschedules
    /\ LET ts0 == [tasks EXCEPT ![task.task_id] = 0]
           os0 == Collect(objs, ts0, sups)
       IN /\ \E o \in Slots : os0[o] = NoObj
          /\ LET o == FreeSlot(os0)
             IN /\ objs' = [os0 EXCEPT ![o] = task]
                /\ tasks' = [tasks EXCEPT ![task.task_id] = o]
                /\ invocations' = [Invoked(os0, invocations) EXCEPT ![o] = 0]
                /\ revoked' = Revoked(os0, revoked) \ {o}
                /\ stopped' = Revoked(os0, stopped) \ {o}
    /\ task_queue' = QueuePut(task_queue, priority_item(task))
    /\ disk' = save_tasks(objs', tasks')
    /\ reschedules' = IF tasks[task.task_id] # 0 THEN reschedules + 1 ELSE reschedules
    /\ last' = Step("schedule_task", task.task_id, 0, "none")
    /\ flushed' = FALSE
    /\ UNCHANGED <<now, handlers, running_tasks, sups, workers, worker_task, is_running,
                   max_concurrent_tasks, sd, restarts, storage>>

schedule_task(task) ==
    /\ Entries(task.task_id) < MaxEntries
    /\ tasks[task.task_id] # 0 => reschedules < MaxReschedules
    /\ LET ts0 == [tasks EXCEPT ![task.task_id] = 0]
           os0 == Collect(objs, ts0, sups)
       IN /\ \E o \in Slots : os0[o] = NoObj
          /\ LET o == FreeSlot(os0)
             IN /\ objs' = [os0 EXCEPT ![o] = task]
                /\ tasks' = [tasks EXCEPT ![task.task_id] = o]
                /\ invocations' = [Invoked(os0, invocations) EXCEPT ![o] = 0]
                /\ revoked' = Revoked(os0, revoked) \ {o}
                /\ stopped' = Revoked(os0, stopped) \ {o}
    /\ task_queue' = QueuePut(task_queue, priority_item(task))
    /\ disk' = save_tasks(objs', tasks')
    /\ reschedules' = IF tasks[task.task_id] # 0 THEN reschedules + 1 ELSE reschedules
    /\ last' = Step("schedule_task", task.task_id, 0, "none")
    /\ flushed' = FALSE
    /\ UNCHANGED <<now, handlers, running_tasks, sups, workers, worker_task, is_running,
                   max_concurrent_tasks, sd, restarts, storage>>

(* A cancel_task that cancels a task whatever its status is.              *)
cancel_task_any(task_id) ==
    IF tasks[task_id] = 0
    THEN /\ last' = Step("cancel_task", task_id, 0, "false")
         /\ flushed' = FALSE
         /\ UNCHANGED <<now, handlers, objs, invocations, revoked, stopped, tasks, task_queue, running_tasks, sups, workers,
                        worker_task, is_running, max_concurrent_tasks, sd, disk, restarts, storage,
                        reschedules>>
    ELSE /\ objs' = [objs EXCEPT ![tasks[task_id]].status = "cancelled"]
         /\ UNCHANGED invocations
         /\ revoked' = IF objs[tasks[task_id]].status = "scheduled"
                       THEN revoked \cup {tasks[task_id]}
                       ELSE revoked
         /\ stopped' = IF objs[tasks[task_id]].status = "running"
                       THEN stopped \cup {tasks[task_id]}
                       ELSE stopped
         /\ sups' = IF running_tasks[task_id] \in Handles
                    THEN [sups EXCEPT ![running_tasks[task_id]].cancel = TRUE]
                    ELSE sups
         /\ disk' = save_tasks(objs', tasks)
         /\ last' = Step("cancel_task", task_id, 0, "true")
         /\ flushed' = FALSE
         /\ UNCHANGED <<now, handlers, tasks, task_queue, running_tasks, workers, worker_task,
                        is_running, max_concurrent_tasks, sd, restarts, storage, reschedules>>

(* lines 127-143 *)
cancel_task(task_id) ==
    IF tasks[task_id] = 0 \/ objs[tasks[task_id]].status \notin {"scheduled", "running"}
    THEN /\ last' = Step("cancel_task", task_id, 0, "false")
         /\ flushed' = FALSE
         /\ UNCHANGED <<now, handlers, objs, invocations, revoked, stopped, tasks, task_queue, running_tasks, sups, workers,
                        worker_task, is_running, max_concurrent_tasks, sd, disk, restarts, storage,
                        reschedules>>
    ELSE /\ objs' = [objs EXCEPT ![tasks[task_id]].status = "cancelled"]
         /\ UNCHANGED invocations
         /\ revoked' = IF objs[tasks[task_id]].status = "scheduled"
                       THEN revoked \cup {tasks[task_id]}
                       ELSE revoked
         /\ stopped' = IF objs[tasks[task_id]].status = "running"
                       THEN stopped \cup {tasks[task_id]}
                       ELSE stopped
         /\ sups' = IF running_tasks[task_id] \in Handles
                    THEN [sups EXCEPT ![running_tasks[task_id]].cancel = TRUE]
                    ELSE sups
         /\ disk' = save_tasks(objs', tasks)
         /\ last' = Step("cancel_task", task_id, 0, "true")
         /\ flushed' = FALSE
         /\ UNCHANGED <<now, handlers, tasks, task_queue, running_tasks, workers, worker_task,
                        is_running, max_concurrent_tasks, sd, restarts, storage, reschedules>>

(* ---------------------------- _execute_task ---------------------------- *)
(* The end of a runner: a runner that self.running_tasks still refers to   *)
(* stays there as a finished asyncio.Task.                                 *)
RunnerGone(rt, h) == [i \in Ids |-> IF rt[i] = h THEN Done ELSE rt[i]]

(* A missing handler that counts as a failed attempt.                      *)
ExecuteStart_counted(h) ==
    /\ sups[h].pc = "start"
    /\ ~sups[h].cancel
    /\ LET o == sups[h].obj
           t == objs[o]
       IN IF t.task_type \notin handlers
          THEN /\ sups' = [sups EXCEPT ![h] = NoSup]
               /\ objs' = Collect([objs EXCEPT ![o].status = "failed", ![o].error = "no handler",
                                               ![o].retry_count = IF @ < t.max_retries THEN @ + 1 ELSE @],
                                  tasks, sups')
               /\ disk' = save_tasks(objs', tasks)
               /\ running_tasks' = RunnerGone(running_tasks, h)
               /\ sd' = Gathered(h)
               /\ invocations' = Invoked(objs', invocations)
               /\ revoked' = Revoked(objs', revoked)
               /\ stopped' = Revoked(objs', stopped)
               /\ last' = Step("no_handler", t.task_id, h, "none")
               /\ UNCHANGED flushed
          ELSE /\ objs' = [objs EXCEPT ![o].status = "running", ![o].start_time = now]
               /\ sups' = [sups EXCEPT ![h].pc = "handler", ![h].deadline = now + t.timeout]
               /\ disk' = save_tasks(objs', tasks)
               /\ invocations' = [invocations EXCEPT ![o] = @ + 1]
               /\ UNCHANGED revoked
               /\ UNCHANGED stopped
               /\ last' = Step("execute", t.task_id, h, "none")
               /\ UNCHANGED flushed
               /\ UNCHANGED <<running_tasks, sd>>
    /\ UNCHANGED <<now, handlers, tasks, task_queue, workers, worker_task, is_running,
                   max_concurrent_tasks, restarts, storage, reschedules>>

(* lines 159-164: no handler for the type; the coroutine returns before    *)
(* the try block.  lines 166-169 otherwise.                                *)
ExecuteStart(h) ==
    /\ sups[h].pc = "start"
    /\ ~sups[h].cancel
    /\ LET o == sups[h].obj
           t == objs[o]
       IN IF t.task_type \notin handlers
          THEN /\ sups' = [sups EXCEPT ![h] = NoSup]
               /\ objs' = Collect([objs EXCEPT ![o].status = "failed", ![o].error = "no handler"],
                                  tasks, sups')
               /\ disk' = save_tasks(objs', tasks)
               /\ running_tasks' = RunnerGone(running_tasks, h)
               /\ sd' = Gathered(h)
               /\ invocations' = Invoked(objs', invocations)
               /\ revoked' = Revoked(objs', revoked)
               /\ stopped' = Revoked(objs', stopped)
               /\ last' = Step("no_handler", t.task_id, h, "none")
               /\ UNCHANGED flushed
          ELSE /\ objs' = [objs EXCEPT ![o].status = "running", ![o].start_time = now]
               /\ sups' = [sups EXCEPT ![h].pc = "handler", ![h].deadline = now + t.timeout]
               /\ disk' = save_tasks(objs', tasks)
               /\ invocations' = [invocations EXCEPT ![o] = @ + 1]
               /\ UNCHANGED revoked
               /\ UNCHANGED stopped
               /\ last' = Step("execute", t.task_id, h, "none")
               /\ UNCHANGED flushed
               /\ UNCHANGED <<running_tasks, sd>>
    /\ UNCHANGED <<now, handlers, tasks, task_queue, workers, worker_task, is_running,
                   max_concurrent_tasks, restarts, storage, reschedules>>

(* A runner cancelled before its first step never executes the coroutine   *)
(* body, the finally block included.                                       *)
ExecuteNeverStarted(h) ==
    /\ sups[h].pc = "start"
    /\ sups[h].cancel
    /\ sups' = [sups EXCEPT ![h] = NoSup]
    /\ objs' = Collect(objs, tasks, sups')
    /\ invocations' = Invoked(objs', invocations)
    /\ revoked' = Revoked(objs', revoked)
    /\ stopped' = Revoked(objs', stopped)
    /\ running_tasks' = RunnerGone(running_tasks, h)
    /\ sd' = Gathered(h)
    /\ last' = Step("never_started", objs[sups[h].obj].task_id, h, "none")
    /\ UNCHANGED flushed
    /\ UNCHANGED <<now, handlers, tasks, task_queue, workers, worker_task, is_running,
                   max_concurrent_tasks, disk, restarts, storage, reschedules>>

(* A retry logic that compares with <= grants one retry too many.          *)
Retry_le(t) ==
    IF t.retry_count <= t.max_retries
    THEN [t EXCEPT !.retry_count = t.retry_count + 1,
                   !.status = "scheduled",
                   !.schedule_time = now + t.retry_delay]
    ELSE t

(* lines 187-194 and 201-208: the retry logic of both except clauses.      *)
Retry(t) ==
    IF t.retry_count < t.max_retries
    THEN [t EXCEPT !.retry_count = t.retry_count + 1,
                   !.status = "scheduled",
                   !.schedule_time = now + t.retry_delay]
    ELSE t

(* A finally block that sends the callback whatever the status is.         *)
Finally_any(h, t1, q1, op) ==
    LET o == sups[h].obj
        t2 == [t1 EXCEPT !.end_time = now]
        callback == t2.callback_url
    IN /\ sups' = IF callback
                  THEN [sups EXCEPT ![h].pc = "callback", ![h].cancel = FALSE]
                  ELSE [sups EXCEPT ![h] = NoSup]
       /\ objs' = Collect([objs EXCEPT ![o] = t2], tasks, sups')
       /\ invocations' = Invoked(objs', invocations)
       /\ revoked' = Revoked(objs', revoked)
       /\ stopped' = Revoked(objs', stopped)
       /\ running_tasks' = [running_tasks EXCEPT ![t2.task_id] = 0]
       /\ task_queue' = q1
       /\ disk' = save_tasks(objs', tasks)
       /\ sd' = IF callback THEN sd ELSE Gathered(h)
       /\ last' = Step(op, t2.task_id, h, "none")
       /\ UNCHANGED flushed
       /\ UNCHANGED <<now, handlers, tasks, workers, worker_task, is_running,
                      max_concurrent_tasks, restarts, storage, reschedules>>

(* lines 210-219: the finally block, up to the await of _send_callback.    *)
Finally(h, t1, q1, op) ==
    LET o == sups[h].obj
        t2 == [t1 EXCEPT !.end_time = now]
        callback == t2.callback_url /\ t2.status \in {"completed", "failed"}
    IN /\ sups' = IF callback
                  THEN [sups EXCEPT ![h].pc = "callback", ![h].cancel = FALSE]
                  ELSE [sups EXCEPT ![h] = NoSup]
       /\ objs' = Collect([objs EXCEPT ![o] = t2], tasks, sups')
       /\ invocations' = Invoked(objs', invocations)
       /\ revoked' = Revoked(objs', revoked)
       /\ stopped' = Revoked(objs', stopped)
       /\ running_tasks' = [running_tasks EXCEPT ![t2.task_id] = 0]
       /\ task_queue' = q1
       /\ disk' = save_tasks(objs', tasks)
       /\ sd' = IF callback THEN sd ELSE Gathered(h)
       /\ last' = Step(op, t2.task_id, h, "none")
       /\ UNCHANGED flushed
       /\ UNCHANGED <<now, handlers, tasks, workers, worker_task, is_running,
                      max_concurrent_tasks, restarts, storage, reschedules>>

(* lines 176-180: the handler returned within the timeout.                 *)
HandlerReturns(h, result) ==
    /\ sups[h].pc = "handler"
    /\ now < sups[h].deadline
    /\ Finally(h, [objs[sups[h].obj] EXCEPT !.status = "completed", !.result = result],
               task_queue, "completed")

(* lines 196-208: the handler raised within the timeout.                   *)
HandlerRaises(h) ==
    /\ sups[h].pc = "handler"
    /\ now < sups[h].deadline
    /\ LET t1 == Retry([objs[sups[h].obj] EXCEPT !.status = "failed", !.error = "exception"])
       IN Finally(h, t1,
                  IF t1.status = "scheduled" THEN QueuePut(task_queue, priority_item(t1))
                  ELSE task_queue,
                  "raised")

(* A timeout branch that stores the value of the handler all the same.     *)
HandlerTimesOut_late(h) ==
    /\ sups[h].pc = "handler"
    /\ ~sups[h].cancel
    /\ now >= sups[h].deadline
    /\ LET t1 == Retry([objs[sups[h].obj] EXCEPT !.status = "failed", !.error = "timed out",
                                                 !.result = "value"])
       IN Finally(h, t1,
                  IF t1.status = "scheduled" THEN QueuePut(task_queue, priority_item(t1))
                  ELSE task_queue,
                  "timed_out")

(* lines 182-194: asyncio.wait_for gave up after task.timeout seconds.     *)
HandlerTimesOut(h) ==
    /\ sups[h].pc = "handler"
    /\ ~sups[h].cancel
    /\ now >= sups[h].deadline
    /\ LET t1 == Retry([objs[sups[h].obj] EXCEPT !.status = "failed", !.error = "timed out"])
       IN Finally(h, t1,
                  IF t1.status = "scheduled" THEN QueuePut(task_queue, priority_item(t1))
                  ELSE task_queue,
                  "timed_out")

(* CancelledError is no Exception: only the finally block runs.            *)
ExecuteCancelled(h) ==
    /\ sups[h].pc = "handler"
    /\ sups[h].cancel
    /\ Finally(h, objs[sups[h].obj], task_queue, "cancelled")

(* A _send_callback that puts the task back in the queue when the         *)
(* delivery fails.                                                         *)
CallbackDone_requeue(h) ==
    /\ sups[h].pc = "callback"
    /\ sups' = [sups EXCEPT ![h] = NoSup]
    /\ objs' = Collect(objs, tasks, sups')
    /\ invocations' = Invoked(objs', invocations)
    /\ revoked' = Revoked(objs', revoked)
    /\ stopped' = Revoked(objs', stopped)
    /\ sd' = Gathered(h)
    /\ \E delivered \in BOOLEAN :
          /\ last' = Step("callback", objs[sups[h].obj].task_id, h, IF delivered THEN "sent" ELSE "failed")
          /\ UNCHANGED flushed
          /\ task_queue' = IF delivered THEN task_queue
                           ELSE QueuePut(task_queue, priority_item(objs[sups[h].obj]))
    /\ UNCHANGED <<now, handlers, tasks, running_tasks, workers, worker_task,
                   is_running, max_concurrent_tasks, disk, restarts, storage, reschedules>>

(* lines 221-236: _send_callback returns, delivered or not.                *)
CallbackDone(h) ==
    /\ sups[h].pc = "callback"
    /\ sups' = [sups EXCEPT ![h] = NoSup]
    /\ objs' = Collect(objs, tasks, sups')
    /\ invocations' = Invoked(objs', invocations)
    /\ revoked' = Revoked(objs', revoked)
    /\ stopped' = Revoked(objs', stopped)
    /\ sd' = Gathered(h)
    /\ UNCHANGED flushed
    /\ \E delivered \in BOOLEAN :
          last' = Step("callback", objs[sups[h].obj].task_id, h, IF delivered THEN "sent" ELSE "failed")
    /\ UNCHANGED <<now, handlers, tasks, task_queue, running_tasks, workers, worker_task,
                   is_running, max_concurrent_tasks, disk, restarts, storage, reschedules>>

(* ---------------------------- _worker ---------------------------------- *)
WorkerAt(w, pc) == workers[w].pc = pc /\ ~workers[w].cancel

(* A worker whose capacity check lets one runner too many through.         *)
WorkerPops_le(w) ==
    /\ WorkerAt(w, "loop")
    /\ is_running
    /\ Cardinality(RunningIds) <= max_concurrent_tasks
    /\ task_queue # <<>>

(* lines 244-253: an iteration pops an entry only below capacity; at        *)
(* capacity, or with an empty queue, it sleeps and starts over.            *)
WorkerPops(w) ==
    /\ WorkerAt(w, "loop")
    /\ is_running
    /\ Cardinality(RunningIds) < max_concurrent_tasks
    /\ task_queue # <<>>

(* The task the popped entry names, looked up in self.tasks (line 260).    *)
HeadId == Head(task_queue)[3]
HeadTask == objs[tasks[HeadId]]

(* lines 262-265 *)
WorkerDrop(w) ==
    /\ WorkerPops(w)
    /\ HeadTask.status = "cancelled"
    /\ task_queue' = Tail(task_queue)
    /\ UNCHANGED workers
    /\ last' = Step("worker_drop", HeadId, 0, "none")
    /\ UNCHANGED flushed
    /\ UNCHANGED <<now, handlers, objs, invocations, revoked, stopped, tasks, running_tasks, sups, worker_task, is_running,
                   max_concurrent_tasks, sd, disk, restarts, storage, reschedules>>

(* A worker that puts the entry of a task that is not ready in the queue   *)
(* without having taken it out.                                            *)
WorkerRequeue_dup(w) ==
    /\ WorkerPops(w)
    /\ HeadTask.status # "cancelled"
    /\ HeadTask.schedule_time > now
    /\ Len(task_queue) < MaxEntries + 1
    /\ task_queue' = QueuePut(task_queue, priority_item(HeadTask))
    /\ UNCHANGED workers
    /\ last' = Step("worker_requeue", HeadId, 0, "none")
    /\ UNCHANGED flushed
    /\ UNCHANGED <<now, handlers, objs, invocations, revoked, stopped, tasks, running_tasks, sups, worker_task, is_running,
                   max_concurrent_tasks, sd, disk, restarts, storage, reschedules>>

(* lines 267-275 *)
WorkerRequeue(w) ==
    /\ WorkerPops(w)
    /\ HeadTask.status # "cancelled"
    /\ HeadTask.schedule_time > now
    /\ task_queue' = QueuePut(Tail(task_queue), priority_item(HeadTask))
    /\ UNCHANGED workers
    /\ last' = Step("worker_requeue", HeadId, 0, "none")
    /\ UNCHANGED flushed
    /\ UNCHANGED <<now, handlers, objs, invocations, revoked, stopped, tasks, running_tasks, sups, worker_task, is_running,
                   max_concurrent_tasks, sd, disk, restarts, storage, reschedules>>

(* A worker that passes over the entries that are not ready and starts the *)
(* first ready task of the queue.                                          *)
WorkerDispatch_ready(w) ==
    /\ WorkerAt(w, "loop")
    /\ is_running
    /\ Cardinality(RunningIds) < max_concurrent_tasks
    /\ \E h \in Handles : sups[h] = NoSup
    /\ \E k \in 1..Len(task_queue) :
          LET i == task_queue[k][3]
          IN /\ objs[tasks[i]].status # "cancelled"
             /\ objs[tasks[i]].schedule_time <= now
             /\ \A m \in 1..(k - 1) : objs[tasks[task_queue[m][3]]].schedule_time > now
             /\ sups' = [sups EXCEPT ![FreeHandle] =
                             [pc |-> "start", obj |-> tasks[i], cancel |-> FALSE, deadline |-> NoTime]]
             /\ running_tasks' = [running_tasks EXCEPT ![i] = FreeHandle]
             /\ task_queue' = SubSeq(task_queue, 1, k - 1) \o SubSeq(task_queue, k + 1, Len(task_queue))
             /\ last' = Step("worker_dispatch", i, FreeHandle, "none")
    /\ UNCHANGED workers
    /\ UNCHANGED flushed
    /\ UNCHANGED <<now, handlers, objs, invocations, revoked, stopped, tasks, worker_task, is_running, max_concurrent_tasks,
                   sd, disk, restarts, storage, reschedules>>

(* lines 277-280 *)
WorkerDispatch(w) ==
    /\ WorkerPops(w)
    /\ HeadTask.status # "cancelled"
    /\ HeadTask.schedule_time <= now
    /\ \E h \in Handles : sups[h] = NoSup
    /\ sups' = [sups EXCEPT ![FreeHandle] =
                    [pc |-> "start", obj |-> tasks[HeadId], cancel |-> FALSE, deadline |-> NoTime]]
    /\ running_tasks' = [running_tasks EXCEPT ![HeadId] = FreeHandle]
    /\ task_queue' = Tail(task_queue)
    /\ UNCHANGED workers
    /\ last' = Step("worker_dispatch", HeadId, FreeHandle, "none")
    /\ UNCHANGED flushed
    /\ UNCHANGED <<now, handlers, objs, invocations, revoked, stopped, tasks, worker_task, is_running, max_concurrent_tasks,
                   sd, disk, restarts, storage, reschedules>>

(* A worker without the except clause of line 285: the error ends the      *)
(* loop.                                                                   *)
WorkerError_fatal(w) ==
    /\ WorkerPops(w)
    /\ HeadTask.status # "cancelled"
    /\ task_queue' = Tail(task_queue)
    /\ workers' = [workers EXCEPT ![w] = [pc |-> "done", cancel |-> FALSE]]
    /\ last' = Step("worker_error", HeadId, 0, "none")
    /\ UNCHANGED flushed
    /\ UNCHANGED <<now, handlers, objs, invocations, revoked, stopped, tasks, running_tasks, sups, worker_task, is_running,
                   max_concurrent_tasks, sd, disk, restarts, storage, reschedules>>

(* lines 251-287: a statement between the pop of line 251 and the          *)
(* create_task of line 278 raises (the comparison of line 269 does for a   *)
(* schedule_time that datetime.now() cannot be compared with); the except  *)
(* clause of line 285 logs it, sleeps and the loop goes on.  The popped    *)
(* entry is not put back.                                                  *)
WorkerError(w) ==
    /\ WorkerPops(w)
    /\ HeadTask.status # "cancelled"
    /\ task_queue' = Tail(task_queue)
    /\ UNCHANGED workers
    /\ last' = Step("worker_error", HeadId, 0, "none")
    /\ UNCHANGED flushed
    /\ UNCHANGED <<now, handlers, objs, invocations, revoked, stopped, tasks, running_tasks, sups, worker_task, is_running,
                   max_concurrent_tasks, sd, disk, restarts, storage, reschedules>>

(* lines 282-284: shutdown() clears is_running and cancels the worker in  *)
(* one step, so the loop ends by the CancelledError.                       *)
WorkerCancelled(w) ==
    /\ workers[w].pc = "loop"
    /\ workers[w].cancel
    /\ workers' = [workers EXCEPT ![w] = [pc |-> "done", cancel |-> FALSE]]
    /\ last' = Step("worker_cancelled", 0, 0, "none")
    /\ UNCHANGED flushed
    /\ UNCHANGED <<now, handlers, objs, invocations, revoked, stopped, tasks, task_queue, running_tasks, sups, worker_task,
                   is_running, max_concurrent_tasks, sd, disk, restarts, storage, reschedules>>

(* ---------------------------- start / shutdown ------------------------- *)
(* The slot w holds no worker task: none was created in it, or the one     *)
(* that was has ended and no shutdown() awaits it.                         *)
NoWorker(w) ==
    /\ workers[w].pc \in {"none", "done"}
    /\ \A c \in ShutdownCalls : ~(sd[c].pc = "await_worker" /\ w \in sd[c].wait)

(* A start() without the is_running test of line 319.                      *)
start_always ==
    /\ \E w \in WorkerIds : NoWorker(w)
    /\ LET w == CHOOSE v \in WorkerIds : NoWorker(v)
       IN /\ workers' = [workers EXCEPT ![w] = [pc |-> "loop", cancel |-> FALSE]]
          /\ worker_task' = w
    /\ is_running' = TRUE
    /\ last' = Step("start", 0, 0, "started")
    /\ flushed' = FALSE
    /\ UNCHANGED <<now, handlers, objs, invocations, revoked, stopped, tasks, task_queue, running_tasks, sups,
                   max_concurrent_tasks, sd, disk, restarts, storage, reschedules>>

(* lines 317-324 *)
start ==
    IF is_running
    THEN /\ last' = Step("start", 0, 0, "already")
         /\ flushed' = FALSE
         /\ UNCHANGED <<now, handlers, objs, invocations, revoked, stopped, tasks, task_queue, running_tasks, sups, workers,
                        worker_task, is_running, max_concurrent_tasks, sd, disk, restarts, storage,
                        reschedules>>
    ELSE /\ \E w \in WorkerIds : NoWorker(w)
         /\ LET w == CHOOSE v \in WorkerIds : NoWorker(v)
            IN /\ workers' = [workers EXCEPT ![w] = [pc |-> "loop", cancel |-> FALSE]]
               /\ worker_task' = w
         /\ is_running' = TRUE
         /\ last' = Step("start", 0, 0, "started")
         /\ flushed' = FALSE
         /\ UNCHANGED <<now, handlers, objs, invocations, revoked, stopped, tasks, task_queue, running_tasks, sups,
                        max_concurrent_tasks, sd, disk, restarts, storage, reschedules>>

(* lines 348-358, from the moment the worker task has ended.               *)
ShutdownRunning(c) ==
    IF RunningIds = {}
    THEN /\ disk' = save_tasks(objs, tasks)
         /\ sd' = [sd EXCEPT ![c] = Idle]
         /\ last' = Step("shutdown", 0, 0, "complete")
         /\ flushed' = TRUE
         /\ UNCHANGED <<objs, invocations, revoked, stopped, sups>>
    ELSE /\ objs' = [o \in Slots |->
                        IF \E i \in RunningIds : tasks[i] = o
                        THEN [objs[o] EXCEPT !.status = "cancelled"]
                        ELSE objs[o]]
         /\ sups' = [h \in Handles |->
                        IF \E i \in RunningIds : running_tasks[i] = h
                        THEN [sups[h] EXCEPT !.cancel = TRUE]
                        ELSE sups[h]]
         /\ sd' = [sd EXCEPT ![c] =
                      [pc |-> "gather", wait |-> {running_tasks[i] : i \in RunningIds} \cap Handles,
                       marked |-> RunningIds]]
         /\ UNCHANGED <<invocations, revoked, stopped>>
         /\ last' = Step("shutdown", 0, 0, "cancelling")
         /\ flushed' = FALSE
         /\ UNCHANGED disk

(* A shutdown without the hasattr test of line 341: before start() the     *)
(* attribute worker_task does not exist and the call ends in an error.     *)
shutdown_unguarded(c) ==
    /\ sd[c].pc = "idle"
    /\ is_running' = FALSE
    /\ IF worker_task = 0
       THEN /\ last' = Step("shutdown", 0, 0, "error")
            /\ flushed' = FALSE
            /\ UNCHANGED <<objs, invocations, revoked, stopped, sups, disk, sd, workers>>
       ELSE IF workers[worker_task].pc # "done"
       THEN /\ workers' = [workers EXCEPT ![worker_task].cancel = TRUE]
            /\ sd' = [sd EXCEPT ![c] = [pc |-> "await_worker", wait |-> {worker_task}, marked |-> {}]]
            /\ last' = Step("shutdown", 0, 0, "stopping")
            /\ flushed' = FALSE
            /\ UNCHANGED <<objs, invocations, revoked, stopped, sups, disk>>
       ELSE /\ ShutdownRunning(c)
            /\ UNCHANGED workers
    /\ UNCHANGED <<now, handlers, tasks, task_queue, running_tasks, worker_task,
                   max_concurrent_tasks, restarts, storage, reschedules>>

(* lines 332-346; awaiting a worker task that has already ended does not   *)
(* suspend.                                                                *)
shutdown(c) ==
    /\ sd[c].pc = "idle"
    /\ is_running' = FALSE
    /\ IF worker_task # 0 /\ workers[worker_task].pc # "done"
       THEN /\ workers' = [workers EXCEPT ![worker_task].cancel = TRUE]
            /\ sd' = [sd EXCEPT ![c] = [pc |-> "await_worker", wait |-> {worker_task}, marked |-> {}]]
            /\ last' = Step("shutdown", 0, 0, "stopping")
            /\ flushed' = FALSE
            /\ UNCHANGED <<objs, invocations, revoked, stopped, sups, disk>>
       ELSE /\ ShutdownRunning(c)
            /\ UNCHANGED workers
    /\ UNCHANGED <<now, handlers, tasks, task_queue, running_tasks, worker_task,
                   max_concurrent_tasks, restarts, storage, reschedules>>

ShutdownWorkerEnded(c) ==
    /\ sd[c].pc = "await_worker"
    /\ \A w \in sd[c].wait : workers[w].pc = "done"
    /\ ShutdownRunning(c)
    /\ UNCHANGED <<now, handlers, tasks, task_queue, running_tasks, workers, worker_task,
                   is_running, max_concurrent_tasks, restarts, storage, reschedules>>

(* A shutdown that empties running_tasks once asyncio.gather has returned. *)
ShutdownGathered_clear(c) ==
    /\ sd[c].pc = "gather"
    /\ sd[c].wait = {}
    /\ running_tasks' = [i \in Ids |-> 0]
    /\ disk' = save_tasks(objs, tasks)
    /\ sd' = [sd EXCEPT ![c] = [pc |-> "idle", wait |-> {}, marked |-> sd[c].marked]]
    /\ last' = Step("shutdown", 0, 0, "complete")
    /\ flushed' = TRUE
    /\ UNCHANGED <<now, handlers, objs, invocations, revoked, stopped, tasks, task_queue, sups, workers,
                   worker_task, is_running, max_concurrent_tasks, restarts, storage, reschedules>>

(* lines 355-359: asyncio.gather has returned.                             *)
ShutdownGathered(c) ==
    /\ sd[c].pc = "gather"
    /\ sd[c].wait = {}
    /\ disk' = save_tasks(objs, tasks)
    /\ sd' = [sd EXCEPT ![c] = [pc |-> "idle", wait |-> {}, marked |-> sd[c].marked]]
    /\ last' = Step("shutdown", 0, 0, "complete")
    /\ flushed' = TRUE
    /\ UNCHANGED <<now, handlers, objs, invocations, revoked, stopped, tasks, task_queue, running_tasks, sups, workers,
                   worker_task, is_running, max_concurrent_tasks, restarts, storage, reschedules>>

(* ---------------------------- environment ------------------------------ *)
(* The process ends and a new TaskScheduler is constructed on the same      *)
(* storage_path (lines 103-111).                                           *)
Restart ==
    /\ restarts < MaxRestarts
    /\ restarts' = restarts + 1
    /\ handlers' = {}
    /\ objs' = load_objs(disk)
    /\ invocations' = [o \in Slots |-> 0]
    /\ revoked' = {}
    /\ stopped' = {}
    /\ tasks' = load_tasks(disk)
    /\ task_queue' = load_queue(disk, LoadedIds(disk))
    /\ running_tasks' = [i \in Ids |-> 0]
    /\ sups' = [h \in Handles |-> NoSup]
    /\ workers' = [w \in WorkerIds |-> [pc |-> "none", cancel |-> FALSE]]
    /\ worker_task' = 0
    /\ is_running' = FALSE
    /\ max_concurrent_tasks' \in 1..MaxConcurrent
    /\ sd' = [c \in ShutdownCalls |-> Idle]
    /\ last' = Step("restart", 0, 0, IF Loads(disk) THEN "loaded"
                                     ELSE IF disk.exists THEN "failed" ELSE "none")
    /\ flushed' = FALSE
    /\ UNCHANGED <<now, disk, storage, reschedules>>

(* The environment changes what storage_path does.                         *)
StorageChanges ==
    /\ storage' \in StorageStates \ {storage}
    /\ last' = Step("storage", 0, 0, storage')
    /\ UNCHANGED flushed
    /\ UNCHANGED <<now, handlers, objs, invocations, revoked, stopped, tasks, task_queue, running_tasks, sups,
                   workers, worker_task, is_running, max_concurrent_tasks, sd, disk, restarts,
                   reschedules>>

Tick ==
    /\ now < MaxTime
    /\ now' = now + 1
    /\ last' = Step("tick", 0, 0, "none")
    /\ UNCHANGED flushed
    /\ UNCHANGED <<handlers, objs, invocations, revoked, stopped, tasks, task_queue, running_tasks, sups, workers, worker_task,
                   is_running, max_concurrent_tasks, sd, disk, restarts, storage, reschedules>>

(* ---------------------------- specification ---------------------------- *)
NewTasks(ids, times, priorities, retries, callbacks) ==
    {Task(i, ty, "dict", st, pr, mr, rd, to, cb) :
        i \in ids, ty \in TaskTypes, st \in times, pr \in priorities,
        mr \in retries, rd \in RetryDelays, to \in Timeouts, cb \in callbacks}

(* One task id in a scheduler that keeps running: scheduled (also again    *)
(* under the same id), run, retried, cancelled.                            *)
Next ==
    \/ \E ty \in TaskTypes : register_handler(ty)
    \/ \E t \in NewTasks({i \in Ids : \A j \in Ids : i <= j}, {0}, {1}, 0..MaxRetries, {FALSE}) : schedule_task(t)
    \/ \E i \in Ids : cancel_task(i)
    \/ start
    \/ \E w \in WorkerIds : WorkerDrop(w)
    \/ \E w \in WorkerIds : WorkerRequeue(w)
    \/ \E w \in WorkerIds : WorkerDispatch(w)
    \/ \E h \in Handles : ExecuteStart(h)
    \/ \E h \in Handles : ExecuteNeverStarted(h)
    \/ \E h \in Handles : HandlerReturns(h, "value")
    \/ \E h \in Handles : HandlerRaises(h)
    \/ \E h \in Handles : HandlerTimesOut(h)
    \/ \E h \in Handles : ExecuteCancelled(h)
    \/ Tick

Spec == Init /\ [][Next]_vars

(* One task id in a scheduler that keeps running and whose tasks nobody    *)
(* cancels: scheduled (also again under the same id), run, retried.        *)
NextRun ==
    \/ \E ty \in TaskTypes : register_handler(ty)
    \/ \E t \in NewTasks({i \in Ids : \A j \in Ids : i <= j}, {0}, {1}, 0..MaxRetries, {FALSE}) : schedule_task(t)
    \/ start
    \/ \E w \in WorkerIds : WorkerRequeue(w)
    \/ \E w \in WorkerIds : WorkerDispatch(w)
    \/ \E h \in Handles : ExecuteStart(h)
    \/ \E h \in Handles : HandlerReturns(h, "value")
    \/ \E h \in Handles : HandlerRaises(h)
    \/ \E h \in Handles : HandlerTimesOut(h)
    \/ Tick

SpecRun == Init /\ [][NextRun]_vars

(* Tasks with distinct ids and without retries in a scheduler that is      *)
(* started and shut down, any number of times.                             *)
NextShutdown ==
    \/ \E ty \in TaskTypes : register_handler(ty)
    \/ \E t \in NewTasks(Ids, 0..MaxSchedule, {1}, {0}, {FALSE}) :
          tasks[t.task_id] = 0 /\ schedule_task(t)
    \/ \E i \in Ids : cancel_task(i)
    \/ start
    \/ shutdown(1)
    \/ ShutdownWorkerEnded(1)
    \/ ShutdownGathered(1)
    \/ \E w \in WorkerIds : WorkerDrop(w)
    \/ \E w \in WorkerIds : WorkerRequeue(w)
    \/ \E w \in WorkerIds : WorkerDispatch(w)
    \/ \E w \in WorkerIds : WorkerCancelled(w)
    \/ \E h \in Handles : ExecuteStart(h)
    \/ \E h \in Handles : ExecuteNeverStarted(h)
    \/ \E h \in Handles : HandlerReturns(h, "value")
    \/ \E h \in Handles : HandlerRaises(h)
    \/ \E h \in Handles : HandlerTimesOut(h)
    \/ \E h \in Handles : ExecuteCancelled(h)
    \/ Tick

SpecShutdown == Init /\ [][NextShutdown]_vars

(* Two task ids that compete for the queue and for the capacity; no        *)
(* cancellation and no shutdown.                                           *)
NextPair ==
    \/ \E ty \in TaskTypes : register_handler(ty)
    \/ \E t \in NewTasks(Ids, 0..MaxSchedule, 1..MaxPriority, {0}, {FALSE}) : schedule_task(t)
    \/ start
    \/ \E w \in WorkerIds : WorkerRequeue(w)
    \/ \E w \in WorkerIds : WorkerDispatch(w)
    \/ \E h \in Handles : ExecuteStart(h)
    \/ \E h \in Handles : HandlerReturns(h, "value")
    \/ \E h \in Handles : HandlerRaises(h)
    \/ \E h \in Handles : HandlerTimesOut(h)
    \/ Restart
    \/ Tick

SpecPair == Init /\ [][NextPair]_vars

(* One task id whose handler fails on every attempt, in a scheduler that   *)
(* keeps running: no cancel_task, no shutdown, no restart.                 *)
NextRetry ==
    \/ \E ty \in TaskTypes : register_handler(ty)
    \/ \E t \in NewTasks({i \in Ids : \A j \in Ids : i <= j}, {0}, {1}, 0..MaxRetries, {FALSE}) :
          schedule_task(t)
    \/ start
    \/ \E w \in WorkerIds : WorkerRequeue(w)
    \/ \E w \in WorkerIds : WorkerDispatch(w)
    \/ \E h \in Handles : ExecuteStart(h)
    \/ \E h \in Handles : HandlerRaises(h)
    \/ \E h \in Handles : HandlerTimesOut(h)
    \/ Tick

SpecRetry == Init /\ [][NextRetry]_vars

(* One task id that is passed to schedule_task once in the life of a       *)
(* process, with or without a callback_url; the scheduler is started and   *)
(* shut down, never started while shutdown() awaits the worker task, and   *)
(* the process ends and starts again on the same storage.                  *)
NextOnce ==
    \/ \E ty \in TaskTypes : register_handler(ty)
    \/ \E t \in NewTasks({i \in Ids : \A j \in Ids : i <= j}, {0}, {1}, 0..MaxRetries, BOOLEAN) :
          tasks[t.task_id] = 0 /\ schedule_task(t)
    \/ \E i \in Ids : tasks[i] # 0 /\ cancel_task(i)
    \/ sd[1].pc # "await_worker" /\ start
    \/ shutdown(1)
    \/ ShutdownWorkerEnded(1)
    \/ ShutdownGathered(1)
    \/ \E w \in WorkerIds : WorkerDrop(w)
    \/ \E w \in WorkerIds : WorkerRequeue(w)
    \/ \E w \in WorkerIds : WorkerDispatch(w)
    \/ \E w \in WorkerIds : WorkerCancelled(w)
    \/ \E h \in Handles : ExecuteStart(h)
    \/ \E h \in Handles : ExecuteNeverStarted(h)
    \/ \E h \in Handles : \E r \in Results : HandlerReturns(h, r)
    \/ \E h \in Handles : HandlerRaises(h)
    \/ \E h \in Handles : HandlerTimesOut(h)
    \/ \E h \in Handles : ExecuteCancelled(h)
    \/ \E h \in Handles : CallbackDone(h)
    \/ Restart
    \/ Tick

SpecOnce == Init /\ [][NextOnce]_vars

(* One task id with a callback_url and retries, scheduled once in the life *)
(* of a process; the scheduler may also be started again while shutdown()  *)
(* awaits the worker task it cancelled (line 344).                         *)
NextAttempt ==
    \/ \E ty \in TaskTypes : register_handler(ty)
    \/ \E t \in NewTasks({i \in Ids : \A j \in Ids : i <= j}, {0}, {1}, {MaxRetries}, {TRUE}) :
          tasks[t.task_id] = 0 /\ schedule_task(t)
    \/ \E i \in Ids : tasks[i] # 0 /\ cancel_task(i)
    \/ start
    \/ shutdown(1)
    \/ ShutdownWorkerEnded(1)
    \/ ShutdownGathered(1)
    \/ \E w \in WorkerIds : WorkerDrop(w)
    \/ \E w \in WorkerIds : WorkerRequeue(w)
    \/ \E w \in WorkerIds : WorkerDispatch(w)
    \/ \E w \in WorkerIds : WorkerCancelled(w)
    \/ \E h \in Handles : ExecuteStart(h)
    \/ \E h \in Handles : ExecuteNeverStarted(h)
    \/ \E h \in Handles : HandlerReturns(h, "value")
    \/ \E h \in Handles : HandlerRaises(h)
    \/ \E h \in Handles : HandlerTimesOut(h)
    \/ \E h \in Handles : ExecuteCancelled(h)
    \/ \E h \in Handles : CallbackDone(h)
    \/ Restart
    \/ Tick

SpecAttempt == Init /\ [][NextAttempt]_vars

(* start() and two shutdown() calls in any order, a start() while a        *)
(* shutdown() awaits the worker task included, with a task to dispatch.    *)
NextStart ==
    \/ \E ty \in TaskTypes : register_handler(ty)
    \/ \E t \in NewTasks({i \in Ids : \A j \in Ids : i <= j}, {0}, {1}, {0}, {FALSE}) :
          tasks[t.task_id] = 0 /\ schedule_task(t)
    \/ start
    \/ \E c \in ShutdownCalls : shutdown(c)
    \/ \E c \in ShutdownCalls : ShutdownWorkerEnded(c)
    \/ \E c \in ShutdownCalls : ShutdownGathered(c)
    \/ \E w \in WorkerIds : WorkerDispatch(w)
    \/ \E w \in WorkerIds : WorkerCancelled(w)
    \/ \E h \in Handles : ExecuteStart(h)
    \/ \E h \in Handles : ExecuteNeverStarted(h)
    \/ \E h \in Handles : HandlerReturns(h, "value")
    \/ \E h \in Handles : ExecuteCancelled(h)

SpecStart == Init /\ [][NextStart]_vars

(* One task id, scheduled once in the life of a process, on a storage that  *)
(* fails and recovers; the process ends and starts again.                  *)
NextStorage ==
    \/ \E ty \in TaskTypes : register_handler(ty)
    \/ \E t \in NewTasks({i \in Ids : \A j \in Ids : i <= j}, {0}, {1}, {0}, {FALSE}) :
          tasks[t.task_id] = 0 /\ schedule_task(t)
    \/ \E i \in Ids : tasks[i] # 0 /\ cancel_task(i)
    \/ start
    \/ \E w \in WorkerIds : WorkerDrop(w)
    \/ \E w \in WorkerIds : WorkerDispatch(w)
    \/ \E h \in Handles : ExecuteStart(h)
    \/ \E h \in Handles : HandlerReturns(h, "value")
    \/ \E h \in Handles : HandlerRaises(h)
    \/ \E h \in Handles : ExecuteCancelled(h)
    \/ StorageChanges
    \/ Restart

SpecStorage == Init /\ [][NextStorage]_vars

(* One task id that is passed to schedule_task more than once, in a         *)
(* scheduler that is started and shut down.                                *)
NextFlush ==
    \/ \E ty \in TaskTypes : register_handler(ty)
    \/ \E t \in NewTasks({i \in Ids : \A j \in Ids : i <= j}, {0}, {1}, {0}, {FALSE}) :
          schedule_task(t)
    \/ start
    \/ shutdown(1)
    \/ ShutdownWorkerEnded(1)
    \/ ShutdownGathered(1)
    \/ \E w \in WorkerIds : WorkerDispatch(w)
    \/ \E w \in WorkerIds : WorkerCancelled(w)
    \/ \E h \in Handles : ExecuteStart(h)
    \/ \E h \in Handles : ExecuteNeverStarted(h)
    \/ \E h \in Handles : HandlerReturns(h, "value")
    \/ \E h \in Handles : ExecuteCancelled(h)

SpecFlush == Init /\ [][NextFlush]_vars

(* One task id, scheduled once, in a scheduler on which shutdown() is      *)
(* called again and again, also while a call of it is suspended; start()   *)
(* is called only when no shutdown() is in progress.                       *)
NextTwice ==
    \/ \E ty \in TaskTypes : register_handler(ty)
    \/ \E t \in NewTasks({i \in Ids : \A j \in Ids : i <= j}, {0}, {1}, 0..MaxRetries, {FALSE}) :
          tasks[t.task_id] = 0 /\ schedule_task(t)
    \/ (\A c \in ShutdownCalls : sd[c].pc = "idle") /\ start
    \/ \E c \in ShutdownCalls : shutdown(c)
    \/ \E c \in ShutdownCalls : ShutdownWorkerEnded(c)
    \/ \E c \in ShutdownCalls : ShutdownGathered(c)
    \/ \E w \in WorkerIds : WorkerDispatch(w)
    \/ \E w \in WorkerIds : WorkerCancelled(w)
    \/ \E h \in Handles : ExecuteStart(h)
    \/ \E h \in Handles : ExecuteNeverStarted(h)
    \/ \E h \in Handles : HandlerReturns(h, "value")
    \/ \E h \in Handles : HandlerRaises(h)
    \/ \E h \in Handles : ExecuteCancelled(h)

SpecTwice == Init /\ [][NextTwice]_vars

(* Every task id scheduled once, in a scheduler that keeps running: the    *)
(* tasks compete for the max_concurrent_tasks places of running_tasks.     *)
NextCapacity ==
    \/ \E ty \in TaskTypes : register_handler(ty)
    \/ \E t \in NewTasks(Ids, {0}, {1}, {0}, {FALSE}) :
          tasks[t.task_id] = 0 /\ schedule_task(t)
    \/ start
    \/ \E w \in WorkerIds : WorkerDispatch(w)
    \/ \E h \in Handles : ExecuteStart(h)
    \/ \E h \in Handles : HandlerReturns(h, "value")
    \/ \E h \in Handles : HandlerRaises(h)

SpecCapacity == Init /\ [][NextCapacity]_vars

(* Every task id scheduled once, in a scheduler that keeps running and     *)
(* whose worker meets errors in its iterations; tasks are cancelled.       *)
NextError ==
    \/ \E ty \in TaskTypes : register_handler(ty)
    \/ \E t \in NewTasks(Ids, {0}, {1}, {0}, {FALSE}) :
          tasks[t.task_id] = 0 /\ schedule_task(t)
    \/ \E i \in Ids : tasks[i] # 0 /\ cancel_task(i)
    \/ start
    \/ \E w \in WorkerIds : WorkerDrop(w)
    \/ \E w \in WorkerIds : WorkerDispatch(w)
    \/ \E w \in WorkerIds : WorkerError(w)
    \/ \E h \in Handles : ExecuteStart(h)
    \/ \E h \in Handles : ExecuteNeverStarted(h)
    \/ \E h \in Handles : HandlerReturns(h, "value")
    \/ \E h \in Handles : ExecuteCancelled(h)

SpecError == Init /\ [][NextError]_vars

(* One task id scheduled once, with params of either kind; the task is     *)
(* run, retried and cancelled, and the process ends and starts again.      *)
NextFields ==
    \/ \E ty \in TaskTypes : register_handler(ty)
    \/ \E ty \in TaskTypes, pa \in Params, mr \in 0..MaxRetries, rd \in RetryDelays, to \in Timeouts :
          /\ \A i \in Ids : tasks[i] = 0
          /\ schedule_task(Task(1, ty, pa, 0, 1, mr, rd, to, FALSE))
    \/ \E i \in Ids : tasks[i] # 0 /\ cancel_task(i)
    \/ start
    \/ \E w \in WorkerIds : WorkerDrop(w)
    \/ \E w \in WorkerIds : WorkerRequeue(w)
    \/ \E w \in WorkerIds : WorkerDispatch(w)
    \/ \E h \in Handles : ExecuteStart(h)
    \/ \E h \in Handles : ExecuteNeverStarted(h)
    \/ \E h \in Handles : HandlerReturns(h, "value")
    \/ \E h \in Handles : HandlerRaises(h)
    \/ \E h \in Handles : HandlerTimesOut(h)
    \/ \E h \in Handles : ExecuteCancelled(h)
    \/ Restart
    \/ Tick

SpecFields == Init /\ [][NextFields]_vars

(* Every task id scheduled once, with a priority and a schedule_time, now  *)
(* or later, in a scheduler that keeps running.                            *)
NextHead ==
    \/ \E t \in NewTasks(Ids, {0, MaxSchedule}, {1, MaxPriority}, {0}, {FALSE}) :
          tasks[t.task_id] = 0 /\ schedule_task(t)
    \/ start
    \/ \E w \in WorkerIds : WorkerRequeue(w)
    \/ \E w \in WorkerIds : WorkerDispatch(w)
    \/ \E h \in Handles : ExecuteStart(h)
    \/ Tick

SpecHead == Init /\ [][NextHead]_vars

(* ---------------------------- properties ------------------------------- *)
(* C1: in every reachable state every task has retry_count <= max_retries; *)
(* and a timeout or a handler exception on a task whose retry_count equals *)
(* max_retries leaves the task "failed" and puts nothing in the queue.     *)
C1_RetryBound ==
    /\ [](\A o \in Slots : objs[o] # NoObj => objs[o].retry_count <= objs[o].max_retries)
    /\ [][\A h \in Handles :
            (/\ last'.op \in {"raised", "timed_out"}
             /\ last'.h = h
             /\ sups[h].pc = "handler"
             /\ objs[sups[h].obj].retry_count = objs[sups[h].obj].max_retries)
            => /\ task_queue' = task_queue
               /\ objs'[sups[h].obj] # NoObj => objs'[sups[h].obj].status = "failed"]_vars

(* A task that used its retry and then failed for good.                    *)
C1_Witness ==
    /\ last.op \in {"raised", "timed_out"}
    /\ tasks[last.id] # 0
    /\ LET t == objs[tasks[last.id]]
       IN /\ t.status = "failed"
          /\ t.max_retries >= 1
          /\ t.retry_count = t.max_retries
          /\ invocations[tasks[last.id]] = t.max_retries + 1

(* C2: the number of tasks of the task set whose status is "running" is    *)
(* at most max_concurrent_tasks in every reachable state.                  *)
C2_ConcurrencyBound ==
    Cardinality({i \in Ids : tasks[i] # 0 /\ objs[tasks[i]].status = "running"})
        <= max_concurrent_tasks

(* A scheduler of capacity 1 with two "running" tasks, one of them loaded   *)
(* as "running" from the storage file and held by no runner.               *)
C2_Counterexample ==
    /\ max_concurrent_tasks = 1
    /\ \E i, j \in Ids :
          /\ i # j
          /\ tasks[i] # 0 /\ objs[tasks[i]].status = "running"
          /\ tasks[j] # 0 /\ objs[tasks[j]].status = "running"
          /\ \A h \in Handles : sups[h].pc # "free" => sups[h].obj # tasks[i]

(* C3: whenever the worker creates a runner for a task, and whenever a     *)
(* runner sets a task's status to "running", now >= the task's             *)
(* schedule_time, for first attempts and for retries alike.                *)
C3_NotBeforeScheduleTime ==
    last.op \in {"worker_dispatch", "execute"}
        => now >= objs[sups[last.h].obj].schedule_time

(* A runner has just set "running" a task whose retry is due later.        *)
C3_Counterexample ==
    /\ last.op = "execute"
    /\ objs[sups[last.h].obj].status = "running"
    /\ objs[sups[last.h].obj].retry_count > 0
    /\ objs[sups[last.h].obj].schedule_time > now

(* C4: when the worker creates a runner for a task, no other task that is  *)
(* in the queue, "scheduled" and due (schedule_time <= now) precedes it in  *)
(* the order by (priority, schedule_time, task_id).                        *)
C4_DispatchOrder ==
    last.op = "worker_dispatch"
        => \A k \in 1..Len(task_queue) :
              LET b == task_queue[k][3]
              IN (/\ b # last.id
                  /\ objs[tasks[b]].status = "scheduled"
                  /\ objs[tasks[b]].schedule_time <= now)
                 => ~ItemLess(priority_item(objs[tasks[b]]),
                              priority_item(objs[tasks[last.id]]))

(* The worker has started a task of priority 2 while a due task of         *)
(* priority 1 was waiting in the queue.                                    *)
C4_Counterexample ==
    /\ last.op = "worker_dispatch"
    /\ \E k \in 1..Len(task_queue) :
          LET b == task_queue[k][3]
          IN /\ b # last.id
             /\ objs[tasks[b]].status = "scheduled"
             /\ objs[tasks[b]].schedule_time <= now
             /\ objs[tasks[b]].priority < objs[tasks[last.id]].priority

(* C5: cancel_task on a task whose status is "scheduled" returns True and  *)
(* sets the status to "cancelled" in the same step; from then on the       *)
(* worker drops an entry of the task when it pops it (it neither puts it    *)
(* back nor creates a runner), and the task's handler is not invoked       *)
(* again.                                                                  *)
C5_CancelBeforeStart ==
    [][/\ \A i \in Ids :
            (/\ last'.op = "cancel_task"
             /\ last'.id = i
             /\ tasks[i] # 0
             /\ objs[tasks[i]].status = "scheduled")
            => /\ last'.ret = "true"
               /\ objs'[tasks[i]].status = "cancelled"
       /\ last'.op \in {"worker_requeue", "worker_dispatch"} => tasks[last'.id] \notin revoked
       /\ \A o \in revoked \cap revoked' : invocations'[o] = invocations[o]]_vars

(* The handler has just been invoked for a task that cancel_task had       *)
(* cancelled while it was "scheduled".                                     *)
C5_Counterexample ==
    /\ last.op = "execute"
    /\ sups[last.h].obj \in revoked
    /\ objs[sups[last.h].obj].status = "running"

(* C6: once the status of a task is "completed", "failed" or "cancelled",  *)
(* no step of the worker, of a runner, of cancel_task or of shutdown       *)
(* changes it.  (A schedule_task with the same task_id puts a new task in   *)
(* its place.)                                                             *)
C6_TerminalAbsorbing ==
    [][\A i \in Ids :
          (/\ tasks[i] # 0
           /\ objs[tasks[i]].status \in {"completed", "failed", "cancelled"}
           /\ ~(last'.op = "schedule_task" /\ last'.id = i))
          => /\ tasks'[i] = tasks[i]
             /\ objs'[tasks[i]].status = objs[tasks[i]].status]_vars

(* A task that failed for want of a handler and is "cancelled" now.        *)
C6_Counterexample ==
    \E i \in Ids :
        /\ tasks[i] # 0
        /\ objs[tasks[i]].error = "no handler"
        /\ objs[tasks[i]].status = "cancelled"

(* C7: every change of a task's status is one of scheduled -> running,     *)
(* running -> completed, running -> failed, running -> scheduled,          *)
(* scheduled -> cancelled, running -> cancelled.  (A schedule_task with    *)
(* the same task_id puts a new task in its place.)                         *)
C7_StatusEdges ==
    [][\A i \in Ids :
          (/\ tasks[i] # 0
           /\ ~(last'.op = "schedule_task" /\ last'.id = i)
           /\ tasks'[i] = tasks[i]
           /\ objs'[tasks[i]].status # objs[tasks[i]].status)
          => <<objs[tasks[i]].status, objs'[tasks[i]].status>> \in
                {<<"scheduled", "running">>, <<"running", "completed">>,
                 <<"running", "failed">>, <<"running", "scheduled">>,
                 <<"scheduled", "cancelled">>, <<"running", "cancelled">>}]_vars

(* A task that is "failed" and has never been "running".                   *)
C7_Counterexample ==
    /\ last.op = "no_handler"
    /\ tasks[last.id] # 0
    /\ objs[tasks[last.id]].status = "failed"
    /\ objs[tasks[last.id]].start_time = NoTime
    /\ invocations[tasks[last.id]] = 0

(* C8 (its safety part): a task with max_retries = k whose handler raises  *)
(* or times out on every attempt is never "completed", its handler is      *)
(* invoked at most k + 1 times, and when it is "failed" after an attempt   *)
(* its retry_count is k and its handler has been invoked exactly k + 1     *)
(* times.                                                                  *)
C8_RetryExhaustion ==
    \A o \in Slots :
        objs[o] # NoObj
        => /\ objs[o].status # "completed"
           /\ invocations[o] <= objs[o].max_retries + 1
           /\ (objs[o].status = "failed" /\ objs[o].error # "no handler")
              => /\ objs[o].retry_count = objs[o].max_retries
                 /\ invocations[o] = objs[o].max_retries + 1

(* The handler of a task has been invoked more than max_retries + 1 times. *)
C8_Counterexample ==
    \E o \in Slots :
        /\ objs[o] # NoObj
        /\ invocations[o] > objs[o].max_retries + 1
        /\ objs[o].retry_count = objs[o].max_retries

C10_HandlerNotFound ==
    [][/\ \A h \in Handles :
            (/\ last'.op = "no_handler"
             /\ last'.h = h
             /\ sups[h].pc = "start")
            => /\ task_queue' = task_queue
               /\ sups'[h] = NoSup
               /\ objs'[sups[h].obj] # NoObj
                  => /\ objs'[sups[h].obj].status = "failed"
                     /\ objs'[sups[h].obj].error = "no handler"
                     /\ objs'[sups[h].obj].retry_count = objs[sups[h].obj].retry_count
       /\ \A o \in Slots :
            (/\ objs[o] # NoObj
             /\ objs'[o] # NoObj
             /\ objs'[o].retry_count > objs[o].retry_count)
            => last'.op \in {"raised", "timed_out"}
       /\ Len(task_queue') > Len(task_queue)
            => last'.op \in {"schedule_task", "raised", "timed_out"}]_vars

(* A task with a retry left that has just failed for want of a handler.    *)
C10_Witness ==
    /\ last.op = "no_handler"
    /\ tasks[last.id] # 0
    /\ objs[tasks[last.id]].status = "failed"
    /\ objs[tasks[last.id]].error = "no handler"
    /\ objs[tasks[last.id]].retry_count < objs[tasks[last.id]].max_retries
    /\ \A k \in 1..Len(task_queue) : task_queue[k][3] # last.id

(* C11: whenever a runner ends its work on a task that has a callback_url  *)
(* and leaves it "completed" or "failed" (the handler returned, the        *)
(* retries are exhausted, or no handler is registered), it goes on to      *)
(* _send_callback for that task.                                           *)
C11_CallbackObligation ==
    [][\A h \in Handles :
          (/\ last'.op \in {"completed", "raised", "timed_out", "no_handler"}
           /\ last'.h = h
           /\ objs'[sups[h].obj] # NoObj
           /\ objs'[sups[h].obj].callback_url
           /\ objs'[sups[h].obj].status \in {"completed", "failed"})
          => /\ sups'[h].pc = "callback"
             /\ sups'[h].obj = sups[h].obj]_vars

(* A task with a callback_url has just failed for want of a handler, and   *)
(* no runner is left to send the callback.                                 *)
C11_Counterexample ==
    /\ last.op = "no_handler"
    /\ tasks[last.id] # 0
    /\ objs[tasks[last.id]].callback_url
    /\ objs[tasks[last.id]].status = "failed"
    /\ \A h \in Handles : sups[h].pc # "callback"

(* C12: when _send_callback ends without having delivered the callback,    *)
(* the task is as it was (status, result, error, retry_count and every     *)
(* other field), the queue and the task set are as they were, and the      *)
(* runner ends without sending the callback again.                         *)
C12_CallbackFailure ==
    [][\A h \in Handles :
          (/\ last'.op = "callback"
           /\ last'.ret = "failed"
           /\ last'.h = h)
          => /\ objs'[sups[h].obj] # NoObj => objs'[sups[h].obj] = objs[sups[h].obj]
             /\ task_queue' = task_queue
             /\ tasks' = tasks
             /\ running_tasks' = running_tasks
             /\ sups'[h] = NoSup
             /\ \A g \in Handles \ {h} : sups'[g] = sups[g]]_vars

(* The callback of a finished task has just failed.                        *)
C12_Witness ==
    /\ last.op = "callback"
    /\ last.ret = "failed"
    /\ tasks[last.id] # 0
    /\ objs[tasks[last.id]].callback_url
    /\ objs[tasks[last.id]].status \in {"completed", "failed"}
    /\ \A k \in 1..Len(task_queue) : task_queue[k][3] # last.id

(* C13: round-trip persistence.  When the process starts again on a file    *)
(* that save_tasks wrote from the task set now in memory, the new           *)
(* scheduler holds the same task ids, every field of every task is equal    *)
(* to the field that was saved, and the new queue holds exactly one entry   *)
(* for each task saved as "scheduled" and none for any other task.          *)
C13_RoundTrip ==
    [][(last'.op = "restart" /\ last'.ret = "loaded" /\ disk = Snapshot(objs, tasks))
       => /\ \A i \in Ids : (tasks'[i] # 0) <=> (tasks[i] # 0)
          /\ \A i \in Ids : tasks[i] # 0 => objs'[tasks'[i]] = objs[tasks[i]]
          /\ \A i \in Ids :
                Cardinality({k \in 1..Len(task_queue') : task_queue'[k][3] = i})
                  = IF tasks[i] # 0 /\ objs[tasks[i]].status = "scheduled" THEN 1 ELSE 0]_vars

(* A task completed with a result that JSON writes as another value comes   *)
(* back from the file with that other value.                                *)
C13_Counterexample ==
    /\ last.op = "restart"
    /\ \E i \in Ids : /\ tasks[i] # 0
                      /\ objs[tasks[i]].status = "completed"
                      /\ objs[tasks[i]].result = "list"
                      /\ disk.exists /\ i \in DOMAIN disk.data
                      /\ disk.data[i].result = "list"

(* C14: a task persisted with status "running" is not resumed.  The new     *)
(* scheduler holds it in self.tasks, with no queue entry and no entry in    *)
(* running_tasks; from then on no coroutine runs it, its handler is not     *)
(* invoked, and its status stays "running" unless cancel_task is called on  *)
(* it.                                                                      *)
Orphan(i) ==
    /\ tasks[i] # 0
    /\ objs[tasks[i]].status = "running"
    /\ \A h \in Handles : sups[h] # NoSup => sups[h].obj # tasks[i]

C14_RunningNotResumed ==
    [][\A i \in Ids :
          /\ (last'.op = "restart" /\ disk.exists /\ i \in DOMAIN disk.data
                /\ disk.data[i].status = "running")
             => /\ tasks'[i] # 0
                /\ objs'[tasks'[i]].status = "running"
                /\ \A k \in 1..Len(task_queue') : task_queue'[k][3] # i
                /\ running_tasks'[i] = 0
                /\ \A h \in Handles : sups'[h] = NoSup
          /\ (restarts > 0 /\ restarts' = restarts /\ Orphan(i))
             => /\ tasks'[i] = tasks[i]
                /\ \A k \in 1..Len(task_queue') : task_queue'[k][3] # i
                /\ running_tasks'[i] = 0
                /\ \A h \in Handles : sups'[h] # NoSup => sups'[h].obj # tasks[i]
                /\ invocations'[tasks[i]] = invocations[tasks[i]]
                /\ \/ objs'[tasks[i]].status = "running"
                   \/ last'.op = "cancel_task" /\ last'.id = i]_vars

(* The reloaded task is still "running" in a started scheduler that has a   *)
(* handler for it, after its schedule_time, with an idle worker.            *)
C14_Witness ==
    /\ restarts > 0
    /\ is_running /\ handlers # {}
    /\ \E i \in Ids : /\ Orphan(i)
                      /\ invocations[tasks[i]] = 0
                      /\ objs[tasks[i]].schedule_time < now
    /\ last.op \in {"tick", "cancel_task"}

(* C15: every step that changes the status of a task saves before another   *)
(* operation can run: between any two steps, the file that save_tasks       *)
(* wrote holds the task set that is in memory.                              *)
C15_SaveFollowsMutation ==
    disk.exists => disk = Snapshot(objs, tasks)

(* shutdown has marked a running task "cancelled" and is suspended in       *)
(* asyncio.gather: the file still says "running".                           *)
C15_Counterexample ==
    /\ sd[1].pc = "gather"
    /\ last.op = "shutdown" /\ last.ret = "cancelling"
    /\ disk.exists
    /\ \E i \in Ids : /\ tasks[i] # 0 /\ i \in DOMAIN disk.data
                      /\ objs[tasks[i]].status = "cancelled"
                      /\ disk.data[i].status = "running"

(* The steps that call save_tasks.                                          *)
Saves(step) ==
    \/ step.op \in {"schedule_task", "execute", "no_handler", "completed", "raised",
                    "timed_out", "cancelled"}
    \/ step.op = "cancel_task" /\ step.ret = "true"
    \/ step.op = "shutdown" /\ step.ret = "complete"

(* C16: a failure of the storage is not fatal.  Whatever the storage does,  *)
(* schedule_task returns the id with the task stored and enqueued,          *)
(* cancel_task on a "scheduled" or "running" task returns True with the     *)
(* task "cancelled", and the runner goes on to the handler; a step that     *)
(* saves changes nothing in memory back, and when the storage works it      *)
(* writes the whole task set that is in memory; a process that starts on a  *)
(* file it cannot load starts with no task and accepts tasks.               *)
C16_PersistenceNonFatal ==
    [][/\ last'.op = "schedule_task"
          => /\ last'.id \in Ids /\ last'.ret = "none"
             /\ tasks'[last'.id] # 0
             /\ objs'[tasks'[last'.id]].status = "scheduled"
             /\ Cardinality({k \in 1..Len(task_queue') : task_queue'[k][3] = last'.id})
                  = Entries(last'.id) + 1
       /\ \A i \in Ids :
             (/\ last'.op = "cancel_task" /\ last'.id = i /\ tasks[i] # 0
              /\ objs[tasks[i]].status \in {"scheduled", "running"})
             => /\ last'.ret = "true"
                /\ objs'[tasks[i]].status = "cancelled"
       /\ \A h \in Handles :
             (/\ last'.op = "execute" /\ last'.h = h /\ sups[h] # NoSup /\ sups[h].pc = "start")
             => /\ sups'[h] # NoSup /\ sups'[h].pc = "handler"
                /\ objs'[sups[h].obj].status = "running"
       /\ Saves(last')
             => disk' = CASE storage = "ok" -> Snapshot(objs', tasks')
                          [] storage = "denied" -> disk
                          [] storage = "full" -> Truncated
       /\ (last'.op = "restart" /\ last'.ret = "failed")
             => /\ tasks' = [i \in Ids |-> 0]
                /\ task_queue' = <<>>
                /\ ~is_running'
                /\ \A w \in WorkerIds : workers'[w].pc = "none"]_vars

(* No save has succeeded since the process began, and the task has been     *)
(* scheduled, run and completed all the same.                               *)
C16_Witness ==
    /\ storage # "ok"
    /\ ~disk.exists
    /\ last.op = "completed"
    /\ \E i \in Ids : tasks[i] # 0 /\ objs[tasks[i]].status = "completed"

(* C17: when shutdown returns no runner is in flight: none awaits a         *)
(* handler, none awaits the delivery of a callback, none is still to take   *)
(* a step.                                                                  *)
C17_NoRunnerOutlivesShutdown ==
    (last.op = "shutdown" /\ last.ret = "complete") => \A h \in Handles : sups[h] = NoSup

(* shutdown has returned while a runner that left running_tasks in its      *)
(* finally block is still suspended in _send_callback.                      *)
C17_Counterexample ==
    /\ last.op = "shutdown" /\ last.ret = "complete"
    /\ sd[1].pc = "idle"
    /\ \E h \in Handles : /\ sups[h] # NoSup
                          /\ sups[h].pc = "callback"
                          /\ \A i \in Ids : running_tasks[i] # h

(* C18: shutdown cancels the work in flight.  Every task that is in         *)
(* running_tasks when shutdown reaches line 349 has its runner cancelled    *)
(* and has status "cancelled" when shutdown returns; a step of shutdown     *)
(* leaves a "scheduled" task that is not in running_tasks "scheduled".      *)
C18_ShutdownCancels ==
    /\ [][(last'.op = "shutdown" /\ last'.ret = "cancelling")
            => \A i \in RunningIds :
                  /\ i \in sd'[1].marked
                  /\ running_tasks[i] \in Handles => sups'[running_tasks[i]].cancel]_vars
    /\ []((last.op = "shutdown" /\ last.ret = "complete")
            => \A i \in sd[1].marked : tasks[i] # 0 /\ objs[tasks[i]].status = "cancelled")
    /\ [][(last'.op = "shutdown" /\ sd' # sd)
            => \A i \in Ids :
                  (tasks[i] # 0 /\ objs[tasks[i]].status = "scheduled" /\ running_tasks[i] = 0)
                  => objs'[tasks[i]].status = "scheduled"]_vars

(* shutdown has returned and a task whose runner it cancelled is            *)
(* "completed": the handler returned after the cancellation.                *)
C18_Counterexample ==
    /\ last.op = "shutdown" /\ last.ret = "complete"
    /\ \E i \in sd[1].marked : /\ tasks[i] # 0
                            /\ objs[tasks[i]].status = "completed"
                            /\ disk.exists /\ i \in DOMAIN disk.data
                            /\ disk.data[i].status = "completed"

(* C19: shutdown stops dispatch.  From the call of shutdown until start is  *)
(* called again (is_running is False all along) the worker creates no       *)
(* runner and no task goes from "scheduled" to "running"; when shutdown     *)
(* returns the worker loop it cancelled has ended.                          *)
C19_ShutdownStopsDispatch ==
    /\ [][(~is_running /\ ~is_running' /\ restarts' = restarts)
            => /\ \A h \in Handles : sups[h] = NoSup => sups'[h] = NoSup
               /\ \A o \in Slots :
                     (objs[o] # NoObj /\ objs[o].status = "scheduled" /\ objs'[o] # NoObj)
                     => objs'[o].status # "running"]_vars
    /\ []((last.op = "shutdown" /\ last.ret = "complete" /\ ~is_running)
            => \A w \in WorkerIds : workers[w].pc # "loop")

(* shutdown has been called and awaits the worker; the runner that the      *)
(* worker created before takes its first step and the task is "running".    *)
C19_Counterexample ==
    /\ ~is_running
    /\ sd[1].pc = "await_worker"
    /\ last.op = "execute"
    /\ \E h \in Handles : /\ last.h = h /\ sups[h] # NoSup /\ sups[h].pc = "handler"
                          /\ objs[sups[h].obj].status = "running"
                          /\ objs[sups[h].obj].start_time # NoTime

(* C20: the final flush.  When shutdown returns and the write succeeded,    *)
(* the file holds the whole task set that is in memory, the "cancelled"     *)
(* marks of shutdown included; and from then on no field of a task changes  *)
(* until an operation of the scheduler is called (start has not been       *)
(* called while shutdown was suspended either).                             *)
C20_FinalFlush ==
    /\ []((last.op = "shutdown" /\ last.ret = "complete" /\ storage = "ok")
            => disk = Snapshot(objs, tasks))
    /\ [][(flushed /\ flushed' /\ ~is_running)
            => \A i \in Ids :
                  /\ tasks'[i] = tasks[i]
                  /\ tasks[i] # 0 => objs'[tasks[i]] = objs[tasks[i]]]_vars

(* shutdown has returned, no operation has been called since, and a runner  *)
(* that running_tasks no longer named has completed the task: the task in   *)
(* memory is not the task of the final save.                                *)
C20_Counterexample ==
    /\ flushed
    /\ last.op = "completed"
    /\ sd[1].pc = "idle" /\ ~is_running
    /\ \E i \in sd[1].marked : /\ tasks[i] # 0
                            /\ objs[tasks[i]].status = "completed"
                            /\ objs[tasks[i]].result = "value"

(* C21: shutdown is idempotent.  A step of shutdown() starts nothing (no    *)
(* worker loop, no runner, is_running stays False), finds every id of       *)
(* running_tasks in self.tasks, and changes no task but to mark the tasks   *)
(* of running_tasks "cancelled".  Called before start() it returns at once  *)
(* with every task as it was.  Called when another call of it has returned  *)
(* (and nothing was called since) or is suspended in asyncio.gather, its    *)
(* step changes no task at all; and when it returns, the file holds the     *)
(* task set that is in memory.                                              *)
C21_ShutdownIdempotent ==
    [][last'.op = "shutdown"
       => /\ ~is_running'
          /\ \A w \in WorkerIds : workers'[w].pc = "loop" => workers[w].pc = "loop"
          /\ \A h \in Handles : sups[h] = NoSup => sups'[h] = NoSup
          /\ tasks' = tasks /\ task_queue' = task_queue /\ running_tasks' = running_tasks
          /\ \A i \in RunningIds : tasks[i] # 0
          /\ \A o \in Slots :
                \/ objs'[o] = objs[o]
                \/ /\ \E i \in RunningIds : tasks[i] = o
                   /\ objs'[o] = [objs[o] EXCEPT !.status = "cancelled"]
          /\ worker_task = 0
                => /\ last'.ret = "complete" /\ objs' = objs
          /\ (flushed \/ \E c \in ShutdownCalls : sd[c].pc = "gather")
                => objs' = objs
          /\ (last'.ret = "complete" /\ storage = "ok")
                => disk' = Snapshot(objs', tasks')]_vars

(* Two calls of shutdown() have both reached line 353 with the same work    *)
(* in running_tasks, and both have returned.                                *)
C21_Witness ==
    /\ last.op = "shutdown" /\ last.ret = "complete"
    /\ \A c \in ShutdownCalls : sd[c].pc = "idle" /\ sd[c].marked # {}
    /\ \E i \in Ids : /\ \A c \in ShutdownCalls : i \in sd[c].marked
                      /\ tasks[i] # 0

(* C22: cancel_task on a task whose status is "running" returns True,      *)
(* marks it "cancelled" and cancels its runner; from then on the task      *)
(* keeps the status "cancelled" and its retry_count, gets no new queue     *)
(* entry and no callback, and the end of its runner takes its id out of    *)
(* running_tasks, whatever the handler does.                               *)
C22_CancelRunning ==
    [][/\ \A i \in Ids :
             (/\ last'.op = "cancel_task" /\ last'.id = i /\ last' # last
              /\ tasks[i] # 0 /\ objs[tasks[i]].status = "running")
             => /\ last'.ret = "true"
                /\ objs'[tasks[i]].status = "cancelled"
                /\ running_tasks[i] \in Handles => sups'[running_tasks[i]].cancel
       /\ \A o \in stopped \cap stopped' :
             /\ objs'[o].status = "cancelled"
             /\ objs'[o].retry_count = objs[o].retry_count
             /\ Entries(objs[o].task_id)' <= Entries(objs[o].task_id)
             /\ \A h \in Handles : ~(sups'[h].pc = "callback" /\ sups'[h].obj = o)
             /\ \A h \in Handles :
                   (sups[h] # NoSup /\ sups[h].obj = o /\ sups'[h] = NoSup)
                   => running_tasks'[objs[o].task_id] # h]_vars

C22_Counterexample ==
    \E o \in stopped :
       /\ objs[o].status = "completed"
       /\ last.op = "completed" /\ tasks[last.id] = o

C24_ResultXorError ==
    \A o \in Slots :
       objs[o] # NoObj
       => /\ ~(objs[o].result # "none" /\ objs[o].error # "none")
          /\ objs[o].status = "completed" => (objs[o].result # "none" /\ objs[o].error = "none")
          /\ objs[o].status = "failed" => (objs[o].error # "none" /\ objs[o].result = "none")

C24_Counterexample ==
    \E o \in Slots :
       /\ objs[o] # NoObj
       /\ objs[o].status = "completed"
       /\ objs[o].result # "none" /\ objs[o].error # "none"
       /\ objs[o].retry_count > 0
       /\ last.op = "completed" /\ tasks[last.id] = o

(* C25: a timeout or a handler exception on a task with retry_count <      *)
(* max_retries adds exactly 1 to retry_count, sets the status back to      *)
(* "scheduled", sets schedule_time to the time of the failure plus         *)
(* retry_delay and puts exactly one entry with the new (priority,          *)
(* schedule_time, task_id) key in the queue; and no attempt of a retried   *)
(* task starts before that schedule_time.                                  *)
C25_RetryStep ==
    /\ [][\A h \in Handles :
            (/\ last'.op \in {"raised", "timed_out"}
             /\ last'.h = h
             /\ sups[h].pc = "handler"
             /\ objs[sups[h].obj].retry_count < objs[sups[h].obj].max_retries)
            => LET o == sups[h].obj
                   t == objs[o]
               IN /\ task_queue' = QueuePut(task_queue, <<t.priority, now + t.retry_delay, t.task_id>>)
                  /\ Len(task_queue') = Len(task_queue) + 1
                  /\ objs'[o] # NoObj
                     => /\ objs'[o].retry_count = t.retry_count + 1
                        /\ objs'[o].status = "scheduled"
                        /\ objs'[o].schedule_time = now + t.retry_delay]_vars
    /\ [](last.op \in {"worker_dispatch", "execute"}
          => \/ objs[sups[last.h].obj].retry_count = 0
             \/ now >= objs[sups[last.h].obj].schedule_time)

(* An attempt of a task has started while the entry of its retry still     *)
(* waits in the queue for retry_delay to elapse.                           *)
C25_Counterexample ==
    /\ last.op = "execute"
    /\ LET t == objs[sups[last.h].obj]
       IN /\ t.error # "none"
          /\ t.retry_count = 1
          /\ now < t.schedule_time
          /\ \E k \in 1..Len(task_queue) : task_queue[k] = priority_item(t)

(* C26: whenever a runner ends, whatever the outcome — success, timeout,   *)
(* handler exception, retry, missing handler, cancellation — the task's    *)
(* end_time is set, its id is not in running_tasks and the task set has    *)
(* been saved; running_tasks never keeps the id of a task whose runner     *)
(* has ended.                                                              *)
C26_ExitUnconditional ==
    /\ [][\A h \in Handles :
            (/\ sups[h] # NoSup /\ sups'[h] = NoSup
             /\ last'.h = h
             /\ last'.op \in {"no_handler", "never_started", "completed", "raised",
                              "timed_out", "cancelled", "callback"})
            => LET o == sups[h].obj
                   i == objs[o].task_id
               IN /\ running_tasks'[i] = 0
                  /\ objs'[o] # NoObj => objs'[o].end_time # NoTime
                  /\ storage = "ok" => disk' = Snapshot(objs', tasks')]_vars
    /\ [](\A i \in Ids : running_tasks[i] # Done)

(* The runner of a task without a registered handler has returned: the     *)
(* task is "failed" without an end_time and running_tasks still holds the  *)
(* finished runner under its id.                                           *)
C26_Counterexample ==
    /\ last.op = "no_handler"
    /\ running_tasks[last.id] = Done
    /\ tasks[last.id] # 0
    /\ objs[tasks[last.id]].status = "failed"
    /\ objs[tasks[last.id]].end_time = NoTime
    /\ sups[last.h] = NoSup

(* C27: the worker pops no queue entry and creates no runner while         *)
(* running_tasks holds max_concurrent_tasks entries or more; the size of   *)
(* running_tasks never exceeds max_concurrent_tasks.                       *)
C27_Backpressure ==
    /\ [][(\/ Len(task_queue') < Len(task_queue)
           \/ \E h \in Handles : sups[h] = NoSup /\ sups'[h] # NoSup
           \/ last'.op \in {"worker_drop", "worker_requeue", "worker_dispatch"} /\ last' # last)
          => Cardinality(RunningIds) < max_concurrent_tasks]_vars
    /\ [](Cardinality(RunningIds) <= max_concurrent_tasks)

(* running_tasks is full after a dispatch, and a due task waits in the     *)
(* queue.                                                                  *)
C27_Witness ==
    /\ last.op = "worker_dispatch"
    /\ Cardinality(RunningIds) = max_concurrent_tasks
    /\ task_queue # <<>>
    /\ HeadTask.status = "scheduled"
    /\ HeadTask.schedule_time <= now
    /\ \E h \in Handles : sups[h] = NoSup
    /\ worker_task # 0
    /\ WorkerAt(worker_task, "loop")
    /\ is_running

(* C28: when the worker creates a runner for a task, the task is already   *)
(* "running" with its start_time set, and saved; a runner only ever        *)
(* begins on a "running" task, and every task whose id is in               *)
(* running_tasks is "running" (or "cancelled") with start_time set.        *)
C28_MarkedBeforeHandOff ==
    /\ [](last.op = "worker_dispatch"
          => /\ objs[sups[last.h].obj].status = "running"
             /\ objs[sups[last.h].obj].start_time # NoTime
             /\ storage = "ok" => disk = Snapshot(objs, tasks))
    /\ [](\A h \in Handles :
             (sups[h] # NoSup /\ sups[h].pc = "start")
             => objs[sups[h].obj].status \in {"running", "cancelled"})
    /\ [](\A i \in Ids :
             running_tasks[i] \in Handles
             => /\ tasks[i] # 0
                /\ objs[tasks[i]].status \in {"running", "cancelled"}
                /\ objs[tasks[i]].start_time # NoTime)

(* The worker has created the runner of a task and stored it in            *)
(* running_tasks: the task is still "scheduled" and has no start_time.     *)
C28_Counterexample ==
    /\ last.op = "worker_dispatch"
    /\ running_tasks[last.id] = last.h
    /\ sups[last.h].pc = "start"
    /\ objs[sups[last.h].obj].status = "scheduled"
    /\ objs[sups[last.h].obj].start_time = NoTime
    /\ disk = Snapshot(objs, tasks)

(* The steps of a runner, by the name of the step.                         *)
RunnerOps == {"execute", "no_handler", "never_started", "completed", "raised",
              "timed_out", "cancelled", "callback"}

(* C29 as stated: every step of schedule_task, of cancel_task, of a runner *)
(* and of shutdown leaves the contents of the queue and the membership of  *)
(* running_tasks unchanged.                                                *)
C29_OnlyWorkerMutates ==
    [][last'.op \in {"schedule_task", "cancel_task", "shutdown"} \cup RunnerOps
       => /\ task_queue' = task_queue
          /\ RunningIds' = RunningIds]_vars

(* C29, amended: no step of schedule_task, cancel_task, a runner or        *)
(* shutdown takes an entry out of the queue or adds an id to               *)
(* running_tasks.  cancel_task and shutdown leave both unchanged;          *)
(* schedule_task adds exactly one entry, of the task it is given, to the   *)
(* queue; a runner adds at most the one entry of its retry and takes at    *)
(* most the id of its own task out of running_tasks.                       *)
C29_QueueAndRunningOwners ==
    [][/\ last'.op \in {"cancel_task", "shutdown"}
          => /\ task_queue' = task_queue
             /\ RunningIds' = RunningIds
       /\ last'.op = "schedule_task"
          => /\ RunningIds' = RunningIds
             /\ \E k \in 1..Len(task_queue') :
                   /\ task_queue'[k][3] = last'.id
                   /\ task_queue' = QueuePut(task_queue, task_queue'[k])
       /\ last'.op \in RunnerOps
          => /\ RunningIds' \subseteq RunningIds
             /\ RunningIds \ RunningIds' \subseteq {last'.id}
             /\ \/ task_queue' = task_queue
                \/ /\ last'.op \in {"raised", "timed_out"}
                   /\ \E k \in 1..Len(task_queue') :
                         /\ task_queue'[k][3] = last'.id
                         /\ task_queue' = QueuePut(task_queue, task_queue'[k])]_vars

(* A runner has put the entry of its retry in the queue and taken its id   *)
(* out of running_tasks.                                                   *)
C29_Witness ==
    /\ last.op \in {"raised", "timed_out"}
    /\ running_tasks[last.id] = 0
    /\ tasks[last.id] # 0
    /\ objs[tasks[last.id]].status = "scheduled"
    /\ objs[tasks[last.id]].retry_count > 0
    /\ \E k \in 1..Len(task_queue) : task_queue[k] = priority_item(objs[tasks[last.id]])

(* C30: from the moment the worker has created the runner of a task until  *)
(* that runner has saved and taken the task out of running_tasks, no step  *)
(* of anything else — cancel_task, shutdown, the worker, another runner —  *)
(* changes a field of the task.                                            *)
C30_ExclusiveOwnership ==
    [][\A h \in Handles :
          (/\ sups[h] # NoSup
           /\ sups[h].pc \in {"start", "handler"}
           /\ last'.op # "restart"
           /\ objs'[sups[h].obj] # objs[sups[h].obj])
          => /\ last'.op \in RunnerOps
             /\ last'.h = h]_vars

(* cancel_task has written the status of a task whose runner is awaiting   *)
(* the handler.                                                            *)
C30_Counterexample ==
    /\ last.op = "cancel_task" /\ last.ret = "true"
    /\ \E h \in Handles :
          /\ sups[h] # NoSup
          /\ sups[h].pc = "handler"
          /\ sups[h].obj = tasks[last.id]
          /\ running_tasks[last.id] = h
          /\ objs[sups[h].obj].status = "cancelled"
          /\ objs[sups[h].obj].start_time # NoTime

(* C31: when the worker pops an entry whose task has schedule_time > now,  *)
(* the iteration leaves the queue with the same entries under the same     *)
(* keys, and changes no task field, not running_tasks and not the file.    *)
C31_NotReadyPoll ==
    [][last'.op = "worker_requeue"
       => /\ task_queue' = task_queue
          /\ objs' = objs /\ tasks' = tasks
          /\ running_tasks' = running_tasks
          /\ disk' = disk]_vars

(* The worker has put back an entry under another key than the one it      *)
(* popped: the queue now holds two equal entries of the task.              *)
C31_Counterexample ==
    /\ last.op = "worker_requeue"
    /\ Len(task_queue) = 2
    /\ task_queue[1] = task_queue[2]
    /\ task_queue[1] = priority_item(objs[tasks[last.id]])
    /\ reschedules > 0

(* C32: an error raised inside an iteration of the worker is caught at the *)
(* loop: the worker task stays alive in its loop, is_running keeps its     *)
(* value, and the iterations that follow still pop and dispatch, so a task *)
(* that is ready later is still started.                                   *)
C32_LoopErrorsContained ==
    [][last'.op = "worker_error"
       => /\ is_running' = is_running
          /\ worker_task' = worker_task
          /\ \A w \in WorkerIds : WorkerAt(w, "loop") => WorkerAt(w, "loop")'
          /\ objs' = objs /\ running_tasks' = running_tasks /\ sups' = sups]_vars

(* After an error in an iteration, the worker has started a task in a      *)
(* later one.                                                              *)
C32_Witness ==
    /\ last.op = "worker_dispatch"
    /\ is_running
    /\ \E i \in Ids :
          /\ i # last.id
          /\ tasks[i] # 0
          /\ objs[tasks[i]].status = "scheduled"
          /\ Entries(i) = 0
          /\ running_tasks[i] = 0

(* The fields of a task that are set when it is created.                   *)
Immutable(t) ==
    <<t.task_id, t.task_type, t.params, t.priority, t.max_retries, t.retry_delay,
      t.timeout, t.callback_url>>

(* C33: once a task is scheduled, no operation of the scheduler changes    *)
(* its task_id, task_type, params, priority, max_retries, retry_delay,     *)
(* timeout or callback_url; its schedule_time is changed by the retry of   *)
(* its runner only, and never to an earlier value.                         *)
C33_ImmutableFields ==
    [][/\ \A i \in Ids :
             (/\ tasks[i] # 0 /\ tasks'[i] # 0
              /\ ~(last'.op = "schedule_task" /\ last'.id = i))
             => LET t == objs[tasks[i]]
                    u == objs'[tasks'[i]]
                IN /\ Immutable(u) = Immutable(t)
                   /\ u.schedule_time >= t.schedule_time
                   /\ u.schedule_time # t.schedule_time
                      => /\ last'.op \in {"raised", "timed_out"}
                         /\ last'.id = i
                         /\ u.retry_count = t.retry_count + 1
       /\ \A h \in Handles :
             (sups[h] # NoSup /\ sups'[h] # NoSup /\ last'.op # "restart")
             => /\ sups'[h].obj = sups[h].obj
                /\ Immutable(objs'[sups[h].obj]) = Immutable(objs[sups[h].obj])]_vars

(* The process has started again: the params of a task came back from the  *)
(* file as another value than the one the task was scheduled with.         *)
C33_Counterexample ==
    /\ last.op = "restart" /\ last.ret = "loaded"
    /\ \E i \in Ids :
          /\ tasks[i] # 0
          /\ objs[tasks[i]].params = "dict_list"

(* C34 (the safety that progress needs): in a running scheduler, a task    *)
(* that is "scheduled", has a registered handler and waits in the queue    *)
(* can still be started: running_tasks has room for it, or holds a runner  *)
(* that is still going to end and make room.  Otherwise the worker sleeps  *)
(* at line 245 in every iteration and the task is never started, however   *)
(* long the scheduler runs.                                                *)
C34_Progress ==
    \A i \in Ids :
       (/\ is_running
        /\ tasks[i] # 0
        /\ objs[tasks[i]].status = "scheduled"
        /\ objs[tasks[i]].task_type \in handlers
        /\ Entries(i) > 0)
       => \/ Cardinality(RunningIds) < max_concurrent_tasks
          \/ \E j \in RunningIds : running_tasks[j] \in Handles

(* A task failed for want of a handler and its finished runner still       *)
(* fills the only place of running_tasks; a task with a handler, due,      *)
(* waits in the queue of the running scheduler.                            *)
C34_Counterexample ==
    /\ is_running
    /\ max_concurrent_tasks = 1
    /\ worker_task # 0
    /\ WorkerAt(worker_task, "loop")
    /\ \E i, j \in Ids :
          /\ tasks[j] # 0 /\ objs[tasks[j]].error = "no handler"
          /\ running_tasks[j] = Done
          /\ tasks[i] # 0 /\ objs[tasks[i]].status = "scheduled"
          /\ objs[tasks[i]].task_type \in handlers
          /\ objs[tasks[i]].schedule_time <= now
          /\ task_queue = <<priority_item(objs[tasks[i]])>>

(* C35: the worker only ever starts the task of the entry with the least   *)
(* key of the queue; while that entry belongs to a task that is not ready  *)
(* (schedule_time > now) and not cancelled, no task is started, not even   *)
(* one that is ready while running_tasks has room.                         *)
C35_HeadOfLine ==
    [][(\/ last'.op = "worker_dispatch"
        \/ \E h \in Handles : sups[h] = NoSup /\ sups'[h] # NoSup)
       => /\ task_queue # <<>>
          /\ \A k \in 1..Len(task_queue) : ~ItemLess(task_queue[k], Head(task_queue))
          /\ last'.op = "worker_dispatch"
          /\ last'.id = HeadId
          /\ sups'[last'.h].obj = tasks[HeadId]
          /\ \A h \in Handles : h # last'.h => sups'[h] = sups[h]
          /\ ~(HeadTask.schedule_time > now /\ HeadTask.status # "cancelled")]_vars

(* The worker has put back the entry of a task that is not ready; behind   *)
(* it a ready task waits, and running_tasks has room.                      *)
C35_Witness ==
    /\ last.op = "worker_requeue"
    /\ Len(task_queue) >= 2
    /\ HeadId = last.id
    /\ HeadTask.schedule_time > now
    /\ Cardinality(RunningIds) < max_concurrent_tasks
    /\ LET t == objs[tasks[task_queue[2][3]]]
       IN /\ t.status = "scheduled"
          /\ t.schedule_time <= now
          /\ t.task_id # HeadId

(* C36: in every reachable state of a started scheduler, every task whose  *)
(* status is "scheduled" has an entry in the queue or is in running_tasks  *)
(* with a runner that has not ended; also after an iteration of the worker *)
(* that ended with an error and after a cancel_task of another task.       *)
C36_NoLostTasks ==
    is_running
    => \A i \in Ids :
          (tasks[i] # 0 /\ objs[tasks[i]].status = "scheduled")
          => \/ Entries(i) > 0
             \/ running_tasks[i] \in Handles

(* An iteration of the worker has ended with an error after the pop: the   *)
(* task is "scheduled", and neither in the queue nor in running_tasks.     *)
C36_Counterexample ==
    /\ last.op = "worker_error"
    /\ is_running
    /\ worker_task # 0
    /\ WorkerAt(worker_task, "loop")
    /\ tasks[last.id] # 0
    /\ objs[tasks[last.id]].status = "scheduled"
    /\ Entries(last.id) = 0
    /\ running_tasks[last.id] = 0

(* C37: the worker creates a runner only for a task that is "scheduled"    *)
(* when its entry is popped; an entry whose task is "running",             *)
(* "completed", "failed" or "cancelled" is dropped and no handler is       *)
(* invoked for it, also when schedule_task was called again with a         *)
(* task_id that self.tasks already held.                                   *)
C37_DispatchPrecondition ==
    [][(/\ last'.op \in {"worker_drop", "worker_requeue", "worker_dispatch", "worker_error"}
        /\ task_queue # <<>>
        /\ last'.id = HeadId)
       => /\ last'.op = "worker_dispatch" => HeadTask.status = "scheduled"
          /\ HeadTask.status # "scheduled"
             => /\ last'.op = "worker_drop"
                /\ task_queue' = Tail(task_queue)
                /\ sups' = sups]_vars

(* The worker has created a second runner for a task that the first one    *)
(* has already set "running".                                              *)
C37_Counterexample ==
    /\ last.op = "worker_dispatch"
    /\ objs[sups[last.h].obj].status = "running"
    /\ \E h \in Handles :
          /\ h # last.h
          /\ sups[h] # NoSup
          /\ sups[h].pc = "handler"
          /\ sups[h].obj = sups[last.h].obj
    /\ reschedules > 0

(* The runners of the task id i that have not ended.                       *)
InFlight(i) ==
    {h \in Handles : sups[h] # NoSup /\ objs[sups[h].obj].task_id = i}

(* C38: when every task_id is passed to schedule_task at most once, every  *)
(* task id has at most one entry in the queue and at most one runner in    *)
(* flight in every reachable state, and never both: the handler of a task  *)
(* never runs twice at the same time and no attempt starts while another   *)
(* is in flight.                                                           *)
C38_SingleAttempt ==
    \A i \in Ids :
       /\ Entries(i) <= 1
       /\ Cardinality(InFlight(i)) <= 1
       /\ ~(Entries(i) = 1 /\ InFlight(i) # {})

(* The second attempt of a task is in flight: its first attempt failed,    *)
(* its retry entry has been popped, and the runner awaits the handler.     *)
C38_Witness ==
    /\ last.op = "execute"
    /\ InFlight(last.id) = {last.h}
    /\ sups[last.h].pc = "handler"
    /\ objs[sups[last.h].obj].retry_count = 1
    /\ invocations[sups[last.h].obj] = 2
    /\ Entries(last.id) = 0

(* The runner h starts _send_callback in this step.                        *)
CallbackIssued(h) ==
    /\ sups[h] # NoSup
    /\ sups[h].pc = "handler"
    /\ sups'[h] # NoSup
    /\ sups'[h].pc = "callback"

(* The task i is over: an attempt that called the handler ended with the   *)
(* status "completed" or "failed" (lines 178, 183, 197, 211), the queue    *)
(* holds no entry of it and no runner of it is before or in the handler.   *)
Over(i) ==
    /\ tasks[i] # 0
    /\ objs[tasks[i]].status \in {"completed", "failed"}
    /\ objs[tasks[i]].error # "no handler"
    /\ objs[tasks[i]].end_time # NoTime
    /\ Entries(i) = 0
    /\ \A h \in InFlight(i) : sups[h].pc = "callback"

(* C39: a callback is issued for a task only in the step that makes its    *)
(* status "completed" or "failed", never in a step that leaves it          *)
(* "scheduled" for a retry or "cancelled", and a runner is in              *)
(* _send_callback only for a task with one of these two statuses; with     *)
(* every task_id scheduled once, the step that issues a callback ends the  *)
(* task and a task that is over stays over, so that at most one callback   *)
(* is issued for a task.                                                   *)
C39_CallbackOnTerminal ==
    /\ [][\A h \in Handles : CallbackIssued(h) =>
             /\ objs[sups[h].obj].callback_url
             /\ objs'[sups'[h].obj].status \in {"completed", "failed"}
             /\ objs'[sups'[h].obj].task_id = objs[sups[h].obj].task_id
             /\ tasks[objs[sups[h].obj].task_id] = sups[h].obj
             /\ ~Over(objs[sups[h].obj].task_id)
             /\ Over(objs[sups[h].obj].task_id)']_vars
    /\ [][\A i \in Ids : Over(i) => Over(i)']_vars
    /\ [](\A h \in Handles : sups[h] # NoSup /\ sups[h].pc = "callback" =>
             objs[sups[h].obj].status \in {"completed", "failed"})

(* A callback is in flight for a task that failed for good after it was    *)
(* re-scheduled for a retry, which issued no callback.                     *)
C39_Witness ==
    /\ last.op \in {"raised", "timed_out"}
    /\ sups[last.h] # NoSup
    /\ sups[last.h].pc = "callback"
    /\ objs[sups[last.h].obj].status = "failed"
    /\ objs[sups[last.h].obj].retry_count = 1
    /\ invocations[sups[last.h].obj] = 2

(* The worker loops that can pop and dispatch: created, not ended and not  *)
(* cancelled.                                                              *)
Dispatchers == {w \in WorkerIds : WorkerAt(w, "loop")}

(* C40: whatever the order of the start() and shutdown() calls, a start()  *)
(* while a shutdown() awaits the worker task included, at most one worker  *)
(* loop can pop and dispatch, and it is self.worker_task of a scheduler    *)
(* whose is_running is set; a start() on a scheduler whose is_running is   *)
(* set creates no worker and changes nothing.                              *)
C40_SingleDispatcher ==
    /\ [](Cardinality(Dispatchers) <= 1)
    /\ [](\A w \in Dispatchers : w = worker_task /\ is_running)
    /\ [][last'.op = "start" =>
             IF is_running
             THEN /\ last'.ret = "already"
                  /\ UNCHANGED <<now, handlers, objs, tasks, task_queue, running_tasks, sups,
                                 workers, worker_task, is_running, max_concurrent_tasks, sd,
                                 disk>>
             ELSE /\ last'.ret = "started"
                  /\ Dispatchers = {}
                  /\ Dispatchers' = {worker_task'}
                  /\ workers[worker_task'].pc # "loop"]_vars

(* start() has created a worker while a shutdown() still awaits the worker *)
(* it cancelled, which has not ended yet.                                  *)
C40_Witness ==
    /\ last.op = "start"
    /\ last.ret = "started"
    /\ \E c \in ShutdownCalls :
          /\ sd[c].pc = "await_worker"
          /\ \E w \in sd[c].wait :
                /\ w # worker_task
                /\ workers[w].pc = "loop"
                /\ workers[w].cancel
    /\ Dispatchers = {worker_task}
    /\ task_queue # <<>>

====
